---- MODULE Spec2Model ----
(***************************************************************************)
(* Model of the Shopify orders/paid webhook pipeline: the endpoint handler *)
(* (docs/architecture.md), the group extractor and pack resolver, the      *)
(* signature check, the duplicate-key classifier and the three Payload     *)
(* collections with their unique indexes.                                  *)
(*                                                                         *)
(* Every `await` of the handler on a storage call is one atomic step of    *)
(* one execution; executions interleave freely between their steps.        *)
(***************************************************************************)
EXTENDS Integers, Sequences, FiniteSets, TLC

(***************************************************************************)
(* Bounds of the model.                                                    *)
(***************************************************************************)
\* number of handler executions that may run (concurrently or in sequence)
NumExec == 2
\* number of distinct x-shopify-webhook-id values the source sends
NumDeliveries == 2

Execs == 1..NumExec
WebhookIds == 1..NumDeliveries

\* option values: <<>> is undefined/null, <<v>> is the value v
None == <<>>
Some(v) == <<v>>
IsSome(o) == o # <<>>
Val(o) == o[1]

(***************************************************************************)
(* Characters and strings of the variant labels (getPackSize works on the  *)
(* characters of variant_title and name).                                  *)
(***************************************************************************)
Digits == {"0", "1", "2", "3", "4", "5", "6", "7", "8", "9"}
Spaces == {" "}
WordChars == Digits \cup {"a", "b", "c", "e", "l", "n", "p", "q", "s", "u", "x", "_"}

\* String.prototype.toLowerCase on the characters the labels use
ToLowerChar(c) ==
  CASE c = "P" -> "p"
    [] c = "B" -> "b"
    [] c = "L" -> "l"
    [] c = "S" -> "s"
    [] c = "A" -> "a"
    [] c = "Q" -> "q"
    [] c = "U" -> "u"
    [] c = "E" -> "e"
    [] OTHER -> c

ToLower(s) == [i \in 1..Len(s) |-> ToLowerChar(s[i])]

DigitValue(c) ==
  CASE c = "0" -> 0 [] c = "1" -> 1 [] c = "2" -> 2 [] c = "3" -> 3
    [] c = "4" -> 4 [] c = "5" -> 5 [] c = "6" -> 6 [] c = "7" -> 7
    [] c = "8" -> 8 [] c = "9" -> 9

\* Number("<digits>") for the digit run s[a..b]
RECURSIVE NumberOf(_, _, _)
NumberOf(s, a, b) ==
  IF b < a THEN 0 ELSE NumberOf(s, a, b - 1) * 10 + DigitValue(s[b])

\* s has the characters of w at position i
HasAt(s, i, w) ==
  /\ i + Len(w) - 1 <= Len(s)
  /\ \A k \in 1..Len(w) : s[i + k - 1] = w[k]

\* first position >= i that holds no whitespace (Len(s)+1 when there is none)
RECURSIVE SkipSpaces(_, _)
SkipSpaces(s, i) ==
  IF i <= Len(s) /\ s[i] \in Spaces THEN SkipSpaces(s, i + 1) ELSE i

\* \b after position j-1: the character at j is no word character
BoundaryAt(s, j) == j > Len(s) \/ s[j] \notin WordChars

Plaque == <<"p", "l", "a", "q", "u", "e">>

\* plaque(?:s)?\b at position j
WordAt(s, j) ==
  /\ HasAt(s, j, Plaque)
  /\ \/ (j + Len(Plaque) <= Len(s) /\ s[j + Len(Plaque)] = "s"
          /\ BoundaryAt(s, j + Len(Plaque) + 1))
     \/ BoundaryAt(s, j + Len(Plaque))

\* the rest of the pattern after the digit run: \s*plaque(?:s)?\b from i
TailMatches(s, i) == WordAt(s, SkipSpaces(s, i))

\* end of the digit run that starts at a
RECURSIVE RunEnd(_, _)
RunEnd(s, a) ==
  IF a + 1 <= Len(s) /\ s[a + 1] \in Digits THEN RunEnd(s, a + 1) ELSE a

\* /(?:^|[^\d])(\d+)\s*plaque(?:s)?\b/ matches with the group at s[a..RunEnd]
\* (the group starts at a digit that no digit precedes, and backtracking to a
\* shorter group never helps: a digit would have to start "plaque")
MatchAt(s, a) ==
  /\ a \in 1..Len(s)
  /\ s[a] \in Digits
  /\ (a = 1 \/ s[a - 1] \notin Digits)
  /\ TailMatches(s, RunEnd(s, a) + 1)

\* the least element of a non-empty set of integers
MinOf(S) == CHOOSE x \in S : \A y \in S : x <= y

\* mutant: an unsupported count falls back to one plate per unit
AllowedPackOrOne(n) == IF n = 1 \/ n = 2 \/ n = 5 THEN Some(n) ELSE Some(1)

\* if (n === 1 || n === 2 || n === 5) return n; return null
AllowedPack(n) == IF n = 1 \/ n = 2 \/ n = 5 THEN Some(n) ELSE None

\* hay.match(...): null without a match, else the leftmost match, whose
\* group m[1] is turned into a number and checked against the allow-list
PackOfMatch(hay, starts) ==
  IF starts = {} THEN None
  ELSE AllowedPack(NumberOf(hay, MinOf(starts), RunEnd(hay, MinOf(starts))))

\* getPackSize on the lower-cased haystack
PackOfHay(hay) == PackOfMatch(hay, {a \in 1..Len(hay) : MatchAt(hay, a)})

\* src/utils/getShopifyHeader.ts getPackSize(item); an absent field is ''
getPackSize(item) ==
  PackOfHay(ToLower(item.variant_title) \o <<" ">> \o ToLower(item.name))

(***************************************************************************)
(* Line-item properties and destination values.  A value is the text of a  *)
(* property: pad says whether whitespace surrounds it, kind tells an empty *)
(* text, a text that new URL() rejects, and a parseable URL with its host  *)
(* and its path segments.                                                  *)
(***************************************************************************)
UrlValue(pad, kind, host, path) ==
  [pad |-> pad, kind |-> kind, host |-> host, path |-> path]

EmptyValue == UrlValue(FALSE, "empty", "", <<>>)

\* String.prototype.trim
Trim(v) == [v EXCEPT !.pad = FALSE]

\* JavaScript truthiness of a string value: only '' is falsy
TruthyValue(v) == ~(v.kind = "empty" /\ ~v.pad)
TruthyStr(s) == s # ""

\* String(p?.name ?? '').trim().toLowerCase() === 'google_business_url'
IsExactName(n) == n \in {"google_business_url", " Google_Business_URL "}
\* String(p?.name ?? '').toLowerCase().includes('google')
IsLooseName(n) == IsExactName(n) \/ n \in {"Lien Google", "google"}

\* Array.prototype.find: the first element satisfying P, as an option
FirstAt(seq, hits) == IF hits = {} THEN None ELSE Some(seq[MinOf(hits)])

\* properties.find(p => ... === 'google_business_url')
FindExact(properties) ==
  FirstAt(properties, {i \in 1..Len(properties) : IsExactName(properties[i].name)})

\* properties.find(p => ... .includes('google'))
FindLoose(properties) ==
  FirstAt(properties, {i \in 1..Len(properties) : IsLooseName(properties[i].name)})

\* if (exact?.value) return trimmed; if (loose?.value) return trimmed; null
PickReviewUrl(exact, loose) ==
  IF IsSome(exact) /\ TruthyValue(Val(exact).value)
    THEN Some(Trim(Val(exact).value))
  ELSE IF IsSome(loose) /\ TruthyValue(Val(loose).value)
    THEN Some(Trim(Val(loose).value))
  ELSE None

\* src/utils/extractGroups.ts findReviewUrlInProperties
findReviewUrlInProperties(properties) ==
  PickReviewUrl(FindExact(properties), FindLoose(properties))

\* host.toLowerCase() for the hosts of the model
LowerHost(h) == IF h = "G.PAGE" THEN "g.page" ELSE h

\* src/utils/verifyShopifyHmac.ts isGPageReview: new URL(trimmed) parses, the
\* host is g.page and the path starts with /r/ and ends with /review
isGPageReview(v) ==
  /\ v.kind = "url"
  /\ LowerHost(v.host) = "g.page"
  /\ Len(v.path) >= 2
  /\ v.path[1] = "r"
  /\ v.path[Len(v.path)] = "review"

\* normalizeGoogleReviewLinkStrict: the normalized destination, or null when
\* the link is malformed
normalizeGoogleReviewLinkStrict(v) ==
  IF isGPageReview(v)
    THEN Some([Trim(v) EXCEPT !.host = LowerHost(v.host)])
    ELSE None

(***************************************************************************)
(* Line items and the group extractor.                                     *)
(***************************************************************************)
Item(props, q, cq, vt, nm, id, gid) ==
  [properties |-> props, quantity |-> q, current_quantity |-> cq,
   variant_title |-> vt, name |-> nm, id |-> id, admin_graphql_api_id |-> gid]

\* Number(item?.quantity ?? item?.current_quantity ?? 1)
QuantityRaw(item) ==
  IF IsSome(item.quantity) THEN Val(item.quantity)
  ELSE IF IsSome(item.current_quantity) THEN Val(item.current_quantity)
  ELSE 1

\* mutant: the raw quantity is used as it is
QuantityOfRaw(item) == QuantityRaw(item)

\* quantityRaw > 0 ? quantityRaw : 1
QuantityOf(item) == IF QuantityRaw(item) > 0 THEN QuantityRaw(item) ELSE 1

\* !item?.id && !item?.admin_graphql_api_id
LacksLineId(item) ==
  /\ ~(IsSome(item.id) /\ TruthyStr(Val(item.id)))
  /\ ~(IsSome(item.admin_graphql_api_id) /\ TruthyStr(Val(item.admin_graphql_api_id)))

\* mutant: a line whose id is absent or empty gets a generated id
LineItemIdOrGenerated(item) ==
  IF IsSome(item.id) /\ TruthyStr(Val(item.id)) THEN Val(item.id) ELSE "generated"

\* String(item.id ?? item.admin_graphql_api_id)
LineItemIdOf(item) ==
  IF IsSome(item.id) THEN Val(item.id) ELSE Val(item.admin_graphql_api_id)

\* what one iteration of the loop of extractGroups does with one line item:
\* "skip" (continue), "throw" (NO PACK SIZE) or "push" with the group
\* mutant: a relevant line without a pack size is skipped, not thrown on
ItemOutcomeSkipping(item, reviewUrl, packSize) ==
  IF ~IsSome(reviewUrl) \/ Val(reviewUrl).kind = "empty"
    THEN [op |-> "skip"]
  ELSE IF ~IsSome(packSize) THEN [op |-> "skip"]
  ELSE IF LacksLineId(item) THEN [op |-> "skip"]
  ELSE [op |-> "push",
        group |-> [reviewUrl |-> Val(reviewUrl),
                   units |-> QuantityOf(item) * Val(packSize),
                   lineItemId |-> LineItemIdOf(item)]]

ItemOutcome(item, reviewUrl, packSize) ==
  IF ~IsSome(reviewUrl) \/ Val(reviewUrl).kind = "empty"
    THEN [op |-> "skip"]
  ELSE IF ~IsSome(packSize) THEN [op |-> "throw"]
  ELSE IF LacksLineId(item) THEN [op |-> "skip"]
  ELSE [op |-> "push",
        group |-> [reviewUrl |-> Val(reviewUrl),
                   units |-> QuantityOf(item) * Val(packSize),
                   lineItemId |-> LineItemIdOf(item)]]

ItemStep(item) ==
  ItemOutcome(item, findReviewUrlInProperties(item.properties), getPackSize(item))

\* src/utils/extractGroups.ts extractGroups on the line items from index i on,
\* with the groups collected so far
RECURSIVE ExtractFrom(_, _, _)
\* the loop after the step st of item i
ExtractNext(items, i, acc, st) ==
  CASE st.op = "throw" -> [threw |-> TRUE, groups |-> <<>>]
    [] st.op = "skip" -> ExtractFrom(items, i + 1, acc)
    [] st.op = "push" -> ExtractFrom(items, i + 1, Append(acc, st.group))

ExtractFrom(items, i, acc) ==
  IF i > Len(items) THEN [threw |-> FALSE, groups |-> acc]
  ELSE ExtractNext(items, i, acc, ItemStep(items[i]))

extractGroups(body) == ExtractFrom(body.line_items, 1, <<>>)

(***************************************************************************)
(* Sample payloads.  A raw body is the text of the request; json tells     *)
(* whether JSON.parse accepts it, the other fields are what it parses to.  *)
(***************************************************************************)
LabelTwo == <<"b", "l", "a", "n", "c", " ", "/", " ", "2", " ", "P", "l", "a", "q", "u", "e", "s">>
LabelOne == <<"1", " ", "p", "l", "a", "q", "u", "e">>
LabelTen == <<"1", "0", " ", "P", "l", "a", "q", "u", "e", "s">>
LabelNone == <<"b", "l", "a", "n", "c">>

GoodUrl == UrlValue(FALSE, "url", "g.page", <<"r", "ABC123", "review">>)
PaddedUrl == UrlValue(TRUE, "url", "G.PAGE", <<"r", "ABC123", "review">>)
BadUrl == UrlValue(FALSE, "url", "evil.example", <<"r", "ABC123", "review">>)

Prop(n, v) == [name |-> n, value |-> v]

\* li_77, two plates per unit
ItemTwo ==
  Item(<<Prop("google_business_url", GoodUrl)>>, Some(1), None, LabelTwo, <<>>,
       Some("li_77"), None)
\* li_77 again, one plate per unit: its unit range overlaps that of ItemTwo
ItemOne ==
  Item(<<Prop("gravure", EmptyValue), Prop("Lien Google", PaddedUrl)>>, None, Some(1),
       <<>>, LabelOne, Some("li_77"), None)
\* a second line of the same order
ItemNext ==
  Item(<<Prop(" Google_Business_URL ", GoodUrl)>>, Some(0), Some(3), LabelOne, <<>>,
       None, Some("gid_78"))
\* a relevant line whose label names an unsupported pack size
ItemTenPack ==
  Item(<<Prop("google_business_url", GoodUrl)>>, Some(1), None, LabelTen, <<>>,
       Some("li_79"), None)
\* a relevant line whose destination is not a g.page review link
ItemBadUrl ==
  Item(<<Prop("google_business_url", BadUrl)>>, Some(1), None, LabelOne, <<>>,
       Some("li_80"), None)
\* a line that carries no destination property
ItemPlain ==
  Item(<<Prop("gravure", GoodUrl)>>, Some(2), None, LabelNone, <<>>, Some("li_81"), None)
\* a relevant line whose id is the empty string
ItemEmptyId ==
  Item(<<Prop("google", GoodUrl)>>, Some(1), None, LabelOne, <<>>, Some(""), Some("gid_82"))
\* a relevant line with neither id nor admin_graphql_api_id
ItemNoId ==
  Item(<<Prop("google_business_url", GoodUrl)>>, Some(1), None, LabelOne, <<>>, None, None)
\* the line of ItemBadUrl with its destination corrected
ItemFixedUrl ==
  Item(<<Prop("google_business_url", GoodUrl)>>, Some(1), None, LabelOne, <<>>,
       Some("li_80"), None)

Body(json, num, nm, email, cemail, items) ==
  [json |-> json, order_number |-> num, name |-> nm, email |-> email,
   customer_email |-> cemail, line_items |-> items]

BodyTwo == Body(TRUE, Some("1001"), None, Some("a@x.fr"), None, <<ItemTwo>>)
BodyOneNext == Body(TRUE, None, Some("1001"), None, Some("b@x.fr"), <<ItemPlain, ItemOne, ItemNext>>)
BodyOther == Body(TRUE, Some("1002"), None, Some("a@x.fr"), None, <<ItemOne>>)
BodyTenPack == Body(TRUE, Some("1001"), None, Some("a@x.fr"), None, <<ItemOne, ItemTenPack>>)
BodyBadUrl == Body(TRUE, Some("1001"), None, Some("a@x.fr"), None, <<ItemOne, ItemBadUrl>>)
BodyEmptyId == Body(TRUE, Some("1001"), None, Some("a@x.fr"), None, <<ItemEmptyId>>)
BodyNoLines == Body(TRUE, Some("1001"), None, Some("a@x.fr"), None, <<ItemPlain>>)
BodyNoEmail == Body(TRUE, Some("1001"), None, None, None, <<ItemTwo>>)
BodyNoNumber == Body(TRUE, None, Some(""), Some("a@x.fr"), None, <<ItemTwo>>)
BodyNoId == Body(TRUE, Some("1001"), None, Some("a@x.fr"), None, <<ItemOne, ItemNoId>>)
BodyFixedUrl == Body(TRUE, Some("1001"), None, Some("a@x.fr"), None, <<ItemOne, ItemFixedUrl>>)
BodyNotJson == Body(FALSE, None, None, None, None, <<>>)

Bodies ==
  {BodyTwo, BodyOneNext, BodyOther, BodyTenPack, BodyBadUrl, BodyEmptyId,
   BodyNoLines, BodyNoEmail, BodyNoNumber, BodyNoId, BodyFixedUrl,
   BodyNotJson}

(***************************************************************************)
(* Requests, configuration and the security gates.                         *)
(***************************************************************************)
Secret == "shpss_secret"

\* crypto.createHmac('sha256', key).update(raw).digest('base64'): 44
\* characters that depend on the key and on every byte of the body
Hmac(key, raw) == [len |-> 44, key |-> key, body |-> raw]

\* a header value that is not a base64 SHA-256 digest
ShortSignature == [len |-> 7, key |-> "", body |-> BodyNotJson]

Request(topic, id, hmac, raw) ==
  [topic |-> topic, webhookId |-> id, hmac |-> hmac, rawBody |-> raw]

\* requests signed by the source
SignedRequests ==
  {Request("orders/paid", Some(d), Some(Hmac(Secret, b)), b) : d \in WebhookIds, b \in Bodies}

\* requests that one of the gates may stop
OtherRequests ==
  {Request("orders/create", Some(1), Some(Hmac(Secret, BodyTwo)), BodyTwo),
   Request("orders/paid", None, Some(Hmac(Secret, BodyTwo)), BodyTwo),
   Request("orders/paid", Some(1), None, BodyTwo),
   Request("orders/paid", Some(1), Some(Hmac("guess", BodyTwo)), BodyTwo),
   Request("orders/paid", Some(1), Some(Hmac(Secret, BodyTwo)), BodyOther),
   Request("orders/paid", Some(1), Some(ShortSignature), BodyTwo)}

Requests == SignedRequests \cup OtherRequests

\* process.env: SHOPIFY_WEBHOOK_VERIFY_SIGNATURE !== 'false',
\* SHOPIFY_WEBHOOK_SECRET and PLATES_NOTIFICATION_EMAIL
Env(v, s, n) == [verify |-> v, secret |-> s, notifyTo |-> n]

AllEnvs ==
  {Env(v, s, n) : v \in BOOLEAN, s \in {None, Some(Secret)},
                  n \in {None, Some("support@x.fr")}}

\* the configurations the pipeline is run under
Envs ==
  {Env(TRUE, Some(Secret), Some("support@x.fr")),
   Env(TRUE, None, Some("support@x.fr")),
   Env(FALSE, None, None)}

\* mutant: only the lengths of the two digests are compared
SafeEqualByLength(a, b) == IF a.len # b.len THEN "false" ELSE "true"

\* src/utils/verifyShopifyHmac.ts checkShopifySignature: "true", "false" or
\* "throw" (SHOPIFY_WEBHOOK_SECRET missing)
\* if (a.length !== b.length) return false; return timingSafeEqual(a, b)
SafeEqual(a, b) == IF a.len # b.len THEN "false" ELSE IF a = b THEN "true" ELSE "false"

checkShopifySignature(e, rawBody, hmacHeader) ==
  IF ~IsSome(hmacHeader) THEN "false"
  ELSE IF ~IsSome(e.secret) THEN "throw"
  ELSE SafeEqual(Hmac(Val(e.secret), rawBody), Val(hmacHeader))

\* the try/catch around checkShopifySignature: 401 for a signature that does
\* not verify, 500 when the check throws, 0 when it passes
SignatureGate(c) == IF c = "false" THEN 401 ELSE IF c = "throw" THEN 500 ELSE 0

\* mutant: the topic gate is left out
GatesOfAnyTopic(e, r) ==
  IF ~IsSome(r.webhookId) THEN 401
  ELSE IF e.verify THEN SignatureGate(checkShopifySignature(e, r.rawBody, r.hmac))
  ELSE 0

\* mutant: the signature is checked whenever a secret is configured
GatesWithSecret(e, r) ==
  IF r.topic # "orders/paid" THEN 401
  ELSE IF ~IsSome(r.webhookId) THEN 401
  ELSE IF e.verify \/ IsSome(e.secret)
    THEN SignatureGate(checkShopifySignature(e, r.rawBody, r.hmac))
  ELSE 0

\* the gates of the handler: the status they answer with, 0 when the request
\* passes all of them
Gates(e, r) ==
  IF r.topic # "orders/paid" THEN 401
  ELSE IF ~IsSome(r.webhookId) THEN 401
  ELSE IF e.verify THEN SignatureGate(checkShopifySignature(e, r.rawBody, r.hmac))
  ELSE 0

(***************************************************************************)
(* Errors of the storage layer and their classification.                   *)
(***************************************************************************)
\* an error object: err.code, err.message and err.data.errors[0].message
Error(code, message, nested) == [code |-> code, message |-> message, nested |-> nested]

\* what a unique index answers to a create that collides
UniqueErrors ==
  {Error(11000, Some("E11000 duplicate key error"), None),
   Error(0, None, Some("Value must be unique"))}
\* a failure of the storage layer itself
InfraErrors == {Error(0, Some("connection refused"), None)}

\* the cause of a storage error, as the storage layer knows it
CauseOf(err) == IF err \in UniqueErrors THEN "unique" ELSE "infra"

\* String(err?.message ?? ... ?? err?.errors?.[0]?.message ?? err)
ErrorText(err) ==
  IF IsSome(err.message) THEN Val(err.message)
  ELSE IF IsSome(err.nested) THEN Val(err.nested)
  ELSE "[object Object]"

\* s.toLowerCase() contains e11000, duplicate, unique, already exists or
\* has already been taken, for the texts of the model
SaysDuplicate(text) == text \in {"E11000 duplicate key error", "Value must be unique"}

\* mutant: only the MongoDB error code is recognised
isDuplicateKeyErrorByCode(err) == err.code = 11000

\* src/utils/verifyShopifyHmac.ts isDuplicateKeyError
isDuplicateKeyError(err) == err.code = 11000 \/ SaysDuplicate(ErrorText(err))

(***************************************************************************)
(* State.                                                                  *)
(***************************************************************************)
VARIABLES
  env,        \* process.env, fixed for the life of the process
  events,     \* collection webhook-events: the set of its rows
  orders,     \* collection orders
  plates,     \* collection plates
  outbox,     \* the notifications req.payload.sendEmail delivered
  pc,         \* per execution: where the handler stands
  req,        \* per execution: the request it handles
  resp,       \* per execution: the status it answered with, 0 while running
  eventId,    \* per execution: eventId of the handler
  groups,     \* per execution: groups, the result of the group extractor
  mark,       \* per execution: the pending markEvent call and what follows it
  found,      \* per execution: existing.docs[0] of the order lookup
  order,      \* per execution: order.id after the upsert
  keys,       \* per execution: existingSourceKeys
  created,    \* per execution: createdPlates
  gi,         \* per execution: index of the current group
  ui,         \* per execution: unit index i within the current group
  finalPlates,\* per execution: finalPlates.docs mapped to their ids
  writes,     \* per execution: the kinds of storage writes it has performed
  failure,    \* per execution: the cause of the last storage error it met
  swallowed,  \* per execution: the sourceKeys whose create error it swallowed
  lineItem,   \* the line item handed to the extractor on its own
  lineResult, \* what getPackSize and extractGroups return for lineItem
  now         \* Date.now(), counted in days

storage == <<events, orders, plates, outbox>>
locals == <<found, order, keys, created, gi, ui, finalPlates>>
\* what the handler never writes
unit == <<lineItem, lineResult, now>>
vars == <<env, events, orders, plates, outbox, pc, req, resp, eventId, groups, mark,
          found, order, keys, created, gi, ui, finalPlates, writes, failure, swallowed,
          lineItem, lineResult, now>>

NoRequest == Request("", None, None, BodyNotJson)
NoMark == [data |-> [status |-> "", error |-> "", orderNumber |-> None, count |-> 0],
           next |-> ""]

\* no line item is under the extractor on its own
NoItem == Item(<<>>, None, None, <<>>, <<>>, None, None)
NoResult == [done |-> FALSE]

\* the collections are empty and no request has arrived
Quiet ==
  /\ events = {}
  /\ orders = {}
  /\ plates = {}
  /\ outbox = {}
  /\ pc = [p \in Execs |-> "idle"]
  /\ req = [p \in Execs |-> NoRequest]
  /\ resp = [p \in Execs |-> 0]
  /\ eventId = [p \in Execs |-> None]
  /\ groups = [p \in Execs |-> <<>>]
  /\ mark = [p \in Execs |-> NoMark]
  /\ found = [p \in Execs |-> None]
  /\ order = [p \in Execs |-> None]
  /\ keys = [p \in Execs |-> {}]
  /\ created = [p \in Execs |-> <<>>]
  /\ gi = [p \in Execs |-> 1]
  /\ ui = [p \in Execs |-> 0]
  /\ finalPlates = [p \in Execs |-> {}]
  /\ writes = [p \in Execs |-> {}]
  /\ failure = [p \in Execs |-> ""]
  /\ swallowed = [p \in Execs |-> {}]
  /\ now = 0

\* the process has started and no request has arrived
Idle ==
  /\ env \in Envs
  /\ Quiet

Init ==
  /\ Idle
  /\ lineItem = NoItem
  /\ lineResult = NoResult

(***************************************************************************)
(* What the handler computes from the request between two storage calls.   *)
(***************************************************************************)
\* String(body?.order_number ?? body?.name ?? '')
OrderNumberOf(body) ==
  IF IsSome(body.order_number) THEN Val(body.order_number)
  ELSE IF IsSome(body.name) THEN Val(body.name)
  ELSE ""

\* String(body?.email ?? body?.customer?.email ?? '')
CustomerEmailOf(body) ==
  IF IsSome(body.email) THEN Val(body.email)
  ELSE IF IsSome(body.customer_email) THEN Val(body.customer_email)
  ELSE ""

orderNumber(p) == OrderNumberOf(req[p].rawBody)
customerEmail(p) == CustomerEmailOf(req[p].rawBody)

\* `${orderNumber}|${lineItemId}|${i}`
sourceKey(on, lineItemId, i) == on \o "|" \o lineItemId \o "|" \o ToString(i)

MarkData(status, error, on, count) ==
  [status |-> status, error |-> error, orderNumber |-> on, count |-> count]

\* sections 3 and 4 of the handler, run right after the event is registered:
\* the step that follows, with the markEvent call when it is one
Step(label, gs, data) == [pc |-> label, groups |-> gs, data |-> data]

\* section 4 once extractGroups has returned ex or has thrown
AfterExtract(on, ex) ==
  IF ex.threw THEN Step("throw", <<>>, NoMark.data)
  ELSE IF Len(ex.groups) = 0
    THEN Step("mark", ex.groups,
              MarkData("failed", "No Google URL found in line_items", Some(on), 0))
  ELSE IF \E i \in 1..Len(ex.groups) : ex.groups[i].units <= 0
    THEN Step("mark", ex.groups,
              MarkData("failed", "Unable to infer pack size", Some(on), 0))
  ELSE Step("find_order", ex.groups, NoMark.data)

AfterInsert(raw) ==
  IF ~raw.json
    THEN Step("mark", <<>>, MarkData("failed", "Invalid JSON body", None, 0))
  ELSE IF OrderNumberOf(raw) = "" \/ CustomerEmailOf(raw) = ""
    THEN Step("mark", <<>>,
              MarkData("failed", "Missing orderNumber or customerEmail", None, 0))
  ELSE AfterExtract(OrderNumberOf(raw), extractGroups(raw))

\* the plate loop of section 6 from group g, unit i, up to its next storage
\* call: the create of a missing plate, a markEvent, or the final re-read
RECURSIVE LoopFrom(_, _, _, _, _)
\* mutant: a sourceKey that is already there ends the loop
LoopFromUntilKnown(gs, on, g, i, have) ==
  IF g > Len(gs) THEN [pc |-> "final_find", gi |-> g, ui |-> i, data |-> NoMark.data]
  ELSE IF ~TruthyStr(gs[g].lineItemId)
    THEN [pc |-> "mark", gi |-> g, ui |-> i,
          data |-> MarkData("failed", "Missing lineItemId", Some(on), 0)]
  ELSE IF ~IsSome(normalizeGoogleReviewLinkStrict(gs[g].reviewUrl))
    THEN [pc |-> "mark", gi |-> g, ui |-> i,
          data |-> MarkData("failed", "Invalid Google review URL", Some(on), 0)]
  ELSE IF i >= gs[g].units THEN LoopFrom(gs, on, g + 1, 0, have)
  ELSE IF sourceKey(on, gs[g].lineItemId, i) \in have
    THEN [pc |-> "final_find", gi |-> g, ui |-> i, data |-> NoMark.data]
  ELSE [pc |-> "create_plate", gi |-> g, ui |-> i, data |-> NoMark.data]

LoopFrom(gs, on, g, i, have) ==
  IF g > Len(gs) THEN [pc |-> "final_find", gi |-> g, ui |-> i, data |-> NoMark.data]
  ELSE IF ~TruthyStr(gs[g].lineItemId)
    THEN [pc |-> "mark", gi |-> g, ui |-> i,
          data |-> MarkData("failed", "Missing lineItemId (idempotence impossible)",
                            Some(on), 0)]
  ELSE IF ~IsSome(normalizeGoogleReviewLinkStrict(gs[g].reviewUrl))
    THEN [pc |-> "mark", gi |-> g, ui |-> i,
          data |-> MarkData("failed", "Invalid Google review URL", Some(on), 0)]
  ELSE IF i >= gs[g].units THEN LoopFrom(gs, on, g + 1, 0, have)
  ELSE IF sourceKey(on, gs[g].lineItemId, i) \in have
    THEN LoopFrom(gs, on, g, i + 1, have)
  ELSE [pc |-> "create_plate", gi |-> g, ui |-> i, data |-> NoMark.data]

(***************************************************************************)
(* The unique indexes of the three collections.                            *)
(***************************************************************************)
\* mutant: webhook-events.webhookId without its unique index
EventKeyNeverTaken(id) == FALSE

\* webhook-events.webhookId (unique: true)
EventKeyTaken(id) == \E e \in events : e.webhookId = id
\* orders.orderNumber (unique: true)
OrderKeyTaken(on) == \E o \in orders : o.orderNumber = on
\* mutant: plates.sourceKey without its unique index
PlateKeyNeverTaken(k) == FALSE

\* plates.sourceKey (unique: true)
PlateKeyTaken(k) == \E pl \in plates : pl.sourceKey = k
\* plates.slug (unique: true): crypto.randomBytes(6) may draw a slug in use
SlugMayCollide == plates # {}
\* a slug that no plate uses
FreshSlug == Cardinality(plates) + 1

\* payload.find on plates: where order equals id
PlatesOfOrder(id) == {pl \in plates : pl.order = id}
\* existingPlates.docs.map(p => String(p.sourceKey))
SourceKeysOf(id) == {pl.sourceKey : pl \in PlatesOfOrder(id)}

(***************************************************************************)
(* The handler, one action per storage call.                               *)
(***************************************************************************)
\* the handler returns new Response(null, {status})
Respond(p, status) ==
  /\ pc' = [pc EXCEPT ![p] = "done"]
  /\ resp' = [resp EXCEPT ![p] = status]

\* the webhook ids of the requests received so far
UsedIds ==
  {Val(req[q].webhookId) : q \in {x \in Execs : pc[x] # "idle" /\ IsSome(req[x].webhookId)}}

\* mutant: an exception is answered as a success
ThrowAnswersOk(p) == Respond(p, 200)

\* an exception leaves the handler: the framework answers with status 500
Throw(p) == Respond(p, 500)

\* a storage call of p failed for the given cause
Failed(p, cause) == failure' = [failure EXCEPT ![p] = cause]

Goto(p, label) ==
  /\ pc' = [pc EXCEPT ![p] = label]
  /\ UNCHANGED resp

\* a gate answers with its status, or the handler goes on to section 2
Gated(p, status) == IF status # 0 THEN Respond(p, status) ELSE Goto(p, "create_event")

\* the handler reads the request and runs the gates of section 1
Receive(p, r) ==
  /\ pc[p] = "idle"
  /\ \A q \in Execs : q < p => pc[q] # "idle"
  \* the source numbers its deliveries in the order it first sends them
  /\ IsSome(r.webhookId) => Val(r.webhookId) <= Cardinality(UsedIds) + 1
  /\ req' = [req EXCEPT ![p] = r]
  /\ Gated(p, Gates(env, r))
  /\ UNCHANGED <<unit, env, groups, storage, eventId, mark, locals, writes, failure, swallowed>>

\* the row payload.create stores in webhook-events
NewEvent(p) ==
  [id |-> p, webhookId |-> Val(req[p].webhookId), topic |-> req[p].topic,
   status |-> "received", error |-> "", orderNumber |-> None, count |-> 0,
   createdAt |-> now]

\* the insert succeeded: eventId is set and sections 3 and 4 run
Registered(p, a) ==
  /\ eventId' = [eventId EXCEPT ![p] = Some(p)]
  /\ groups' = [groups EXCEPT ![p] = a.groups]
  /\ mark' = [mark EXCEPT ![p] = [data |-> a.data,
                                 next |-> IF a.pc = "mark" THEN "done" ELSE ""]]
  /\ IF a.pc = "throw" THEN Throw(p) ELSE Goto(p, a.pc)

\* mutant: a duplicate delivery is let into the pipeline
InsertRejectedGoesOn(p, err) ==
  /\ Failed(p, CauseOf(err))
  /\ UNCHANGED <<events, eventId>>
  /\ IF isDuplicateKeyError(err)
       THEN \E a \in {AfterInsert(req[p].rawBody)} :
              /\ groups' = [groups EXCEPT ![p] = a.groups]
              /\ mark' = [mark EXCEPT ![p] = [data |-> a.data,
                                             next |-> IF a.pc = "mark" THEN "done" ELSE ""]]
              /\ IF a.pc = "throw" THEN Throw(p) ELSE Goto(p, a.pc)
       ELSE /\ Respond(p, 500)
            /\ UNCHANGED <<groups, mark>>

\* the catch of the insert: status 200 for a duplicate key, 500 otherwise
InsertRejected(p, err) ==
  /\ IF isDuplicateKeyError(err) THEN Respond(p, 200) ELSE Respond(p, 500)
  /\ Failed(p, CauseOf(err))
  /\ UNCHANGED <<events, eventId, groups, mark>>

\* section 2: payload.create on webhook-events
CreateEvent(p) ==
  /\ pc[p] = "create_event"
  /\ \/ /\ ~EventKeyTaken(Val(req[p].webhookId))
        /\ events' = events \cup {NewEvent(p)}
        /\ Registered(p, AfterInsert(req[p].rawBody))
        /\ UNCHANGED failure
     \/ \E err \in (IF EventKeyTaken(Val(req[p].webhookId)) THEN UniqueErrors ELSE {})
                     \cup InfraErrors :
          InsertRejected(p, err)
  /\ UNCHANGED <<unit, env, orders, plates, outbox, req, locals, writes, swallowed>>

\* mutant: the update is applied to every row, not to the row with the id
UpdatedEveryEvent(id, data) ==
  {[e EXCEPT !.status = data.status, !.error = data.error,
             !.orderNumber = data.orderNumber, !.count = data.count] : e \in events}

\* payload.update on webhook-events with the data of markEvent
UpdatedEvents(id, data) ==
  {IF e.id = id
     THEN [e EXCEPT !.status = data.status, !.error = data.error,
                    !.orderNumber = data.orderNumber, !.count = data.count]
     ELSE e : e \in events}

\* mutant: the notification does not depend on what was created
AfterMarkNotifying(p) ==
  IF mark[p].next = "notify" /\ IsSome(env.notifyTo)
    THEN Goto(p, "send_email")
    ELSE Respond(p, 200)

\* what follows the markEvent call: the response, or the notification
AfterMark(p) ==
  IF mark[p].next = "notify" /\ IsSome(env.notifyTo) /\ Len(created[p]) > 0
    THEN Goto(p, "send_email")
    ELSE Respond(p, 200)

\* markEvent: the update, whose failure is logged and swallowed
MarkEvent(p) ==
  /\ pc[p] = "mark"
  /\ \/ /\ IsSome(eventId[p])
        /\ \E e \in events : e.id = Val(eventId[p])
        /\ events' = UpdatedEvents(Val(eventId[p]), mark[p].data)
        /\ writes' = [writes EXCEPT ![p] = @ \cup {"mark"}]
        /\ UNCHANGED failure
     \/ /\ Failed(p, "infra")
        /\ UNCHANGED <<events, writes>>
  /\ AfterMark(p)
  /\ UNCHANGED <<unit, env, groups, orders, plates, outbox, req, eventId, mark, locals, swallowed>>

\* existing.docs[0] of payload.find on orders where orderNumber equals on
OrderByNumber(on) ==
  IF OrderKeyTaken(on) THEN Some((CHOOSE o \in orders : o.orderNumber = on).id) ELSE None

\* section 5: payload.find on orders by orderNumber
FindOrder(p) ==
  /\ pc[p] = "find_order"
  /\ \/ /\ found' = [found EXCEPT ![p] = OrderByNumber(orderNumber(p))]
        /\ Goto(p, "upsert_order")
        /\ UNCHANGED failure
     \/ /\ Throw(p)
        /\ Failed(p, "infra")
        /\ UNCHANGED found
  /\ UNCHANGED <<unit, env, groups, storage, req, eventId, mark, order, keys, created, gi, ui,
                 finalPlates, writes, swallowed>>

\* mutant: the update writes the data of the create, activated included
OrderUpdatedAsCreated(id, email) ==
  {IF o.id = id
     THEN [o EXCEPT !.customerEmail = email, !.status = "paid", !.activated = FALSE]
     ELSE o : o \in orders}

\* payload.update on orders: customerEmail and status
OrderUpdated(id, email) ==
  {IF o.id = id THEN [o EXCEPT !.customerEmail = email, !.status = "paid"] ELSE o :
     o \in orders}

\* mutant: an order is created activated
NewOrderActivated(p) ==
  [id |-> p, orderNumber |-> orderNumber(p), customerEmail |-> customerEmail(p),
   status |-> "paid", activated |-> TRUE, plates |-> {}]

\* the row payload.create stores in orders
NewOrder(p) ==
  [id |-> p, orderNumber |-> orderNumber(p), customerEmail |-> customerEmail(p),
   status |-> "paid", activated |-> FALSE, plates |-> {}]

\* the errors the update or the create of the order can raise: a create
\* collides when another execution created the order after the lookup
OrderWriteErrors(p) ==
  (IF ~IsSome(found[p]) /\ OrderKeyTaken(orderNumber(p)) THEN UniqueErrors ELSE {})
    \cup InfraErrors

\* section 5: payload.update of the order found, or payload.create
UpsertOrder(p) ==
  /\ pc[p] = "upsert_order"
  /\ \/ /\ IsSome(found[p])
        /\ orders' = OrderUpdated(Val(found[p]), customerEmail(p))
        /\ order' = [order EXCEPT ![p] = found[p]]
        /\ writes' = [writes EXCEPT ![p] = @ \cup {"order"}]
        /\ Goto(p, "find_plates")
        /\ UNCHANGED failure
     \/ /\ ~IsSome(found[p])
        /\ ~OrderKeyTaken(orderNumber(p))
        /\ orders' = orders \cup {NewOrder(p)}
        /\ order' = [order EXCEPT ![p] = Some(p)]
        /\ writes' = [writes EXCEPT ![p] = @ \cup {"order"}]
        /\ Goto(p, "find_plates")
        /\ UNCHANGED failure
     \/ /\ \E err \in OrderWriteErrors(p) : Failed(p, CauseOf(err))
        /\ Throw(p)
        /\ UNCHANGED <<orders, order, writes>>
  /\ UNCHANGED <<unit, env, groups, events, plates, outbox, req, eventId, mark, found, keys, created,
                 gi, ui, finalPlates, swallowed>>

\* the plate loop runs on from (g, i) with the sourceKeys in have
Resume(p, l) ==
  /\ gi' = [gi EXCEPT ![p] = l.gi]
  /\ ui' = [ui EXCEPT ![p] = l.ui]
  /\ mark' = [mark EXCEPT ![p] = [data |-> l.data,
                                 next |-> IF l.pc = "mark" THEN "done" ELSE ""]]
  /\ Goto(p, l.pc)

Continue(p, g, i, have) == Resume(p, LoopFrom(groups[p], orderNumber(p), g, i, have))

\* section 6: payload.find on plates of the order, then the loop starts
FindPlates(p) ==
  /\ pc[p] = "find_plates"
  /\ \/ /\ keys' = [keys EXCEPT ![p] = SourceKeysOf(Val(order[p]))]
        /\ Continue(p, 1, 0, SourceKeysOf(Val(order[p])))
        /\ UNCHANGED failure
     \/ /\ Throw(p)
        /\ Failed(p, "infra")
        /\ UNCHANGED <<keys, gi, ui, mark>>
  /\ UNCHANGED <<unit, env, groups, storage, req, eventId, found, order, created, finalPlates,
                 writes, swallowed>>

\* the sourceKey of the unit the loop stands at
CurrentKey(p) == sourceKey(orderNumber(p), groups[p][gi[p]].lineItemId, ui[p])

\* mutant: the plate stores the destination as the payload wrote it
NewPlateUnvalidated(p) ==
  [slug |-> FreshSlug, order |-> Val(order[p]), sourceKey |-> CurrentKey(p),
   googleReviewUrl |-> groups[p][gi[p]].reviewUrl,
   status |-> "activated"]

\* the row payload.create stores in plates
NewPlate(p) ==
  [slug |-> FreshSlug, order |-> Val(order[p]), sourceKey |-> CurrentKey(p),
   googleReviewUrl |-> Val(normalizeGoogleReviewLinkStrict(groups[p][gi[p]].reviewUrl)),
   status |-> "activated"]

\* the errors payload.create on plates can raise for sourceKey k
PlateCreateErrors(k) ==
  (IF PlateKeyTaken(k) \/ SlugMayCollide THEN UniqueErrors ELSE {}) \cup InfraErrors

\* the catch of the create: a duplicate key error is ignored, any other
\* error is thrown again
PlateCreateFailed(p, err) ==
  /\ Failed(p, CauseOf(err))
  /\ IF isDuplicateKeyError(err)
       THEN /\ swallowed' = [swallowed EXCEPT ![p] = @ \cup {CurrentKey(p)}]
            /\ Continue(p, gi[p], ui[p] + 1, keys[p])
       ELSE /\ Throw(p)
            /\ UNCHANGED <<swallowed, gi, ui, mark>>

\* mutant: the create replaces the plate that holds the sourceKey
CreatePlateOverwriting(p) ==
  /\ pc[p] = "create_plate"
  /\ \/ /\ plates' = {pl \in plates : pl.sourceKey # CurrentKey(p)} \cup {NewPlate(p)}
        /\ keys' = [keys EXCEPT ![p] = @ \cup {CurrentKey(p)}]
        /\ created' = [created EXCEPT ![p] = Append(@, FreshSlug)]
        /\ writes' = [writes EXCEPT ![p] = @ \cup {"plate"}]
        /\ Continue(p, gi[p], ui[p] + 1, keys[p] \cup {CurrentKey(p)})
        /\ UNCHANGED <<swallowed, failure>>
     \/ /\ \E err \in PlateCreateErrors(CurrentKey(p)) : PlateCreateFailed(p, err)
        /\ UNCHANGED <<plates, keys, created, writes>>
  /\ UNCHANGED <<unit, env, groups, events, orders, outbox, req, eventId, found, order, finalPlates>>

\* section 6: payload.create of one plate, then the loop runs on
CreatePlate(p) ==
  /\ pc[p] = "create_plate"
  /\ \/ /\ ~PlateKeyTaken(CurrentKey(p))
        /\ plates' = plates \cup {NewPlate(p)}
        /\ keys' = [keys EXCEPT ![p] = @ \cup {CurrentKey(p)}]
        /\ created' = [created EXCEPT ![p] = Append(@, FreshSlug)]
        /\ writes' = [writes EXCEPT ![p] = @ \cup {"plate"}]
        /\ Continue(p, gi[p], ui[p] + 1, keys[p] \cup {CurrentKey(p)})
        /\ UNCHANGED <<swallowed, failure>>
     \/ /\ \E err \in PlateCreateErrors(CurrentKey(p)) : PlateCreateFailed(p, err)
        /\ UNCHANGED <<plates, keys, created, writes>>
  /\ UNCHANGED <<unit, env, groups, events, orders, outbox, req, eventId, found, order, finalPlates>>

\* section 7: payload.find on plates of the order, the authoritative re-read
FinalFind(p) ==
  /\ pc[p] = "final_find"
  /\ \/ /\ finalPlates' = [finalPlates EXCEPT ![p] =
                             {pl.slug : pl \in PlatesOfOrder(Val(order[p]))}]
        /\ Goto(p, "final_update")
        /\ UNCHANGED failure
     \/ /\ Throw(p)
        /\ Failed(p, "infra")
        /\ UNCHANGED finalPlates
  /\ UNCHANGED <<unit, env, groups, storage, req, eventId, mark, found, order, keys, created, gi, ui,
                 writes, swallowed>>

\* mutant: the finalization writes the list of plates only
OrderFinalizedListOnly(id, ids) ==
  {IF o.id = id THEN [o EXCEPT !.plates = ids] ELSE o : o \in orders}

\* payload.update on orders: activated and plates
OrderFinalized(id, ids) ==
  {IF o.id = id THEN [o EXCEPT !.activated = TRUE, !.plates = ids] ELSE o : o \in orders}

\* mutant: the processed mark counts every plate of the order
FinalUpdateCountingAll(p) ==
  /\ pc[p] = "final_update"
  /\ \/ /\ orders' = OrderFinalized(Val(order[p]), finalPlates[p])
        /\ writes' = [writes EXCEPT ![p] = @ \cup {"finalize"}]
        /\ mark' = [mark EXCEPT ![p] =
                      [data |-> MarkData("processed", "", Some(orderNumber(p)),
                                         Cardinality(finalPlates[p])),
                       next |-> "notify"]]
        /\ Goto(p, "mark")
        /\ UNCHANGED failure
     \/ /\ Throw(p)
        /\ Failed(p, "infra")
        /\ UNCHANGED <<orders, writes, mark>>
  /\ UNCHANGED <<unit, env, groups, events, plates, outbox, req, eventId, locals, swallowed>>

\* section 7: payload.update of the order; markEvent(processed) is next
FinalUpdate(p) ==
  /\ pc[p] = "final_update"
  /\ \/ /\ orders' = OrderFinalized(Val(order[p]), finalPlates[p])
        /\ writes' = [writes EXCEPT ![p] = @ \cup {"finalize"}]
        /\ mark' = [mark EXCEPT ![p] =
                      [data |-> MarkData("processed", "", Some(orderNumber(p)),
                                         Len(created[p])),
                       next |-> "notify"]]
        /\ Goto(p, "mark")
        /\ UNCHANGED failure
     \/ /\ Throw(p)
        /\ Failed(p, "infra")
        /\ UNCHANGED <<orders, writes, mark>>
  /\ UNCHANGED <<unit, env, groups, events, plates, outbox, req, eventId, locals, swallowed>>

\* mutant: a failure of payload.sendEmail leaves the handler as an exception
SendEmailOrThrow(p) ==
  /\ pc[p] = "send_email"
  /\ \/ /\ outbox' = outbox \cup {[by |-> p, to |-> Val(env.notifyTo),
                                   order |-> orderNumber(p), slugs |-> created[p]]}
        /\ writes' = [writes EXCEPT ![p] = @ \cup {"notify"}]
        /\ Respond(p, 200)
     \/ /\ UNCHANGED <<outbox, writes>>
        /\ Throw(p)
  /\ UNCHANGED <<unit, env, groups, events, orders, plates, req, eventId, mark, locals, failure,
                 swallowed>>

\* section 8: payload.sendEmail, whose failure is logged and ignored
SendEmail(p) ==
  /\ pc[p] = "send_email"
  /\ \/ /\ outbox' = outbox \cup {[by |-> p, to |-> Val(env.notifyTo),
                                   order |-> orderNumber(p), slugs |-> created[p]]}
        /\ writes' = [writes EXCEPT ![p] = @ \cup {"notify"}]
     \/ UNCHANGED <<outbox, writes>>
  /\ Respond(p, 200)
  /\ UNCHANGED <<unit, env, groups, events, orders, plates, req, eventId, mark, locals, failure,
                 swallowed>>

Next ==
  \/ \E p \in Execs, r \in Requests : Receive(p, r)
  \/ \E p \in Execs : CreateEvent(p)
  \/ \E p \in Execs : MarkEvent(p)
  \/ \E p \in Execs : FindOrder(p)
  \/ \E p \in Execs : UpsertOrder(p)
  \/ \E p \in Execs : FindPlates(p)
  \/ \E p \in Execs : CreatePlate(p)
  \/ \E p \in Execs : FinalFind(p)
  \/ \E p \in Execs : FinalUpdate(p)
  \/ \E p \in Execs : SendEmail(p)

Spec == Init /\ [][Next]_vars

(***************************************************************************)
(* The extractor and the pack resolver on one line item: the line items    *)
(* are drawn from the values below and extractGroups runs on a payload     *)
(* that holds the one line.                                                *)
(***************************************************************************)
LabelPadded == <<"0", "5", " ", "p", "l", "a", "q", "u", "e", "s">>
LabelFraction == <<"1", ".", "5", " ", "p", "l", "a", "q", "u", "e", "s">>
LabelGlued == <<"5", "p", "l", "a", "q", "u", "e">>
LabelLonger == <<"5", " ", "p", "l", "a", "q", "u", "e", "x">>
LabelFirstOfTwo ==
  <<"1", "2", " ", "p", "l", "a", "q", "u", "e", "s", " ", "2", " ", "p", "l", "a", "q", "u", "e", "s">>
LabelUpper == <<"n", "x", "5", " ", " ", "P", "L", "A", "Q", "U", "E", "S">>
LabelZero == <<"0", " ", "p", "l", "a", "q", "u", "e">>

Labels ==
  {<<>>, LabelOne, LabelTwo, LabelTen, LabelNone, LabelPadded, LabelFraction, LabelGlued,
   LabelLonger, LabelFirstOfTwo, LabelUpper, LabelZero}

\* the values of item.name
Names == {<<>>, LabelTwo}

PropertyLists ==
  {<<Prop("gravure", GoodUrl)>>,
   <<Prop("google_business_url", GoodUrl)>>,
   <<Prop("google_business_url", EmptyValue), Prop("Lien Google", PaddedUrl)>>}

Quantities == {None, Some(0), Some(1), Some(3)}
CurrentQuantities == {None, Some(0), Some(2)}
LineIds == {None, Some(""), Some("li_1")}
GraphIds == {None, Some("gid_1")}

LineItems ==
  {Item(ps, q, cq, vt, nm, id, gid) :
     ps \in PropertyLists, q \in Quantities, cq \in CurrentQuantities,
     vt \in Labels, nm \in Names, id \in LineIds, gid \in GraphIds}

InitExtract ==
  /\ Idle
  /\ lineItem \in LineItems
  /\ lineResult = NoResult

\* getPackSize(item) and extractGroups({line_items: [item]})
ExtractLine ==
  /\ ~lineResult.done
  /\ lineResult' = [done |-> TRUE,
                    packSize |-> getPackSize(lineItem),
                    extracted |-> extractGroups([line_items |-> <<lineItem>>])]
  /\ UNCHANGED <<lineItem, now, env, storage, pc, req, resp, eventId, groups, mark, locals,
                 writes, failure, swallowed>>

NextExtract == ExtractLine

SpecExtract == InitExtract /\ [][NextExtract]_vars

(***************************************************************************)
(* The purge job of src/jobs/purgeWebhookEvents.ts beside the handler:     *)
(* days pass, the job runs at any time, and the source delivers signed     *)
(* orders/paid requests whose body is the two-plate order or is not JSON.  *)
(***************************************************************************)
\* keepDays, and the last day the clock reaches
KeepDays == 1
MaxClock == 3

PurgeBodies == {BodyTwo, BodyNotJson}

PurgeRequests ==
  {Request("orders/paid", Some(d), Some(Hmac(Secret, b)), b) :
     d \in WebhookIds, b \in PurgeBodies}

\* a day passes
Tick ==
  /\ now < MaxClock
  /\ now' = now + 1
  /\ UNCHANGED <<lineItem, lineResult, env, storage, pc, req, resp, eventId, groups, mark,
                 locals, writes, failure, swallowed>>

\* mutant: the where clause of the purge has no condition on status
PurgeMatchesAnyStatus(e, cutoff) == e.createdAt < cutoff

\* the where clause of the purge
PurgeMatches(e, cutoff) ==
  /\ e.createdAt < cutoff
  /\ e.status \in {"processed", "failed"}

\* mutant: the purge deletes the plates together with the rows
purgeOnceWithPlates ==
  LET cutoff == now - KeepDays
  IN  \E gone \in SUBSET {e \in events : PurgeMatches(e, cutoff)} :
        /\ gone # {}
        /\ events' = events \ gone
        /\ plates' = {}
        /\ UNCHANGED <<unit, env, orders, outbox, pc, req, resp, eventId, groups,
                       mark, locals, writes, failure, swallowed>>

\* purgeOnce: payload.delete removes the matching rows one by one and may
\* fail on any of them
purgeOnce ==
  LET cutoff == now - KeepDays
  IN  \E gone \in SUBSET {e \in events : PurgeMatches(e, cutoff)} :
        /\ gone # {}
        /\ events' = events \ gone
        /\ UNCHANGED <<unit, env, orders, plates, outbox, pc, req, resp, eventId, groups,
                       mark, locals, writes, failure, swallowed>>

InitPurge ==
  /\ Init
  /\ env = Env(TRUE, Some(Secret), Some("support@x.fr"))

NextPurge ==
  \/ \E p \in Execs, r \in PurgeRequests : Receive(p, r)
  \/ \E p \in Execs : CreateEvent(p)
  \/ \E p \in Execs : MarkEvent(p)
  \/ \E p \in Execs : FindOrder(p)
  \/ \E p \in Execs : UpsertOrder(p)
  \/ \E p \in Execs : FindPlates(p)
  \/ \E p \in Execs : CreatePlate(p)
  \/ \E p \in Execs : FinalFind(p)
  \/ \E p \in Execs : FinalUpdate(p)
  \/ \E p \in Execs : SendEmail(p)
  \/ Tick
  \/ purgeOnce

SpecPurge == InitPurge /\ [][NextPurge]_vars

(***************************************************************************)
(* The handler under every configuration of the three environment          *)
(* variables, on the requests the gates tell apart and the signed          *)
(* two-plate order.                                                        *)
(***************************************************************************)
GateRequests ==
  OtherRequests
    \cup {Request("orders/paid", Some(d), Some(Hmac(Secret, BodyTwo)), BodyTwo) :
            d \in WebhookIds}

InitGate ==
  /\ env \in AllEnvs
  /\ Quiet
  /\ lineItem = NoItem
  /\ lineResult = NoResult

NextGate ==
  \/ \E p \in Execs, r \in GateRequests : Receive(p, r)
  \/ \E p \in Execs : CreateEvent(p)
  \/ \E p \in Execs : MarkEvent(p)
  \/ \E p \in Execs : FindOrder(p)
  \/ \E p \in Execs : UpsertOrder(p)
  \/ \E p \in Execs : FindPlates(p)
  \/ \E p \in Execs : CreatePlate(p)
  \/ \E p \in Execs : FinalFind(p)
  \/ \E p \in Execs : FinalUpdate(p)
  \/ \E p \in Execs : SendEmail(p)

SpecGate == InitGate /\ [][NextGate]_vars

(***************************************************************************)
(* The handler on two orders whose names and line ids contain the          *)
(* separator of the sourceKey.                                             *)
(***************************************************************************)
\* order 1001, one line whose id is li_77|0, one plate
BodyPipeLine ==
  Body(TRUE, Some("1001"), None, Some("a@x.fr"), None,
       <<Item(<<Prop("google_business_url", GoodUrl)>>, Some(1), None, LabelOne, <<>>,
              Some("li_77|0"), None)>>)

\* the order named 1001|li_77, one line whose id is 0, one plate
BodyPipeName ==
  Body(TRUE, None, Some("1001|li_77"), Some("b@x.fr"), None,
       <<Item(<<Prop("google_business_url", GoodUrl)>>, Some(1), None, LabelOne, <<>>,
              Some("0"), None)>>)

NextKey ==
  \/ \E p \in Execs :
       \E r \in {Request("orders/paid", Some(d), Some(Hmac(Secret, b)), b) :
                   d \in WebhookIds, b \in {BodyPipeLine, BodyPipeName}} : Receive(p, r)
  \/ \E p \in Execs : CreateEvent(p)
  \/ \E p \in Execs : MarkEvent(p)
  \/ \E p \in Execs : FindOrder(p)
  \/ \E p \in Execs : UpsertOrder(p)
  \/ \E p \in Execs : FindPlates(p)
  \/ \E p \in Execs : CreatePlate(p)
  \/ \E p \in Execs : FinalFind(p)
  \/ \E p \in Execs : FinalUpdate(p)
  \/ \E p \in Execs : SendEmail(p)

SpecKey == Init /\ [][NextKey]_vars

(***************************************************************************)
(* Vocabulary of the properties.                                           *)
(***************************************************************************)
Range(seq) == {seq[i] : i \in 1..Len(seq)}

\* p has received a request
Started(p) == pc[p] # "idle"
\* p is between its first storage call and its response
Running(p) == pc[p] \notin {"idle", "done"}
\* p holds the id of the record it inserted
Won(p) == IsSome(eventId[p])
\* p answered 200 from the catch of the insert
DupRejected(p) == pc[p] = "done" /\ resp[p] = 200 /\ ~Won(p) /\ failure[p] = "unique"
\* the records of delivery d
RecordsOf(d) == {e \in events : e.webhookId = d}
\* the delivery p carries; only read where p is past the gates
Wid(p) == Val(req[p].webhookId)
\* p is past the gates: it reached the insert
PastGates(p) == Started(p) /\ Gates(env, req[p]) = 0

(***************************************************************************)
(* C1: the Plate collection never holds two rows with the same sourceKey,  *)
(* whatever way executions that generate overlapping identifiers for the   *)
(* same order interleave.                                                  *)
(***************************************************************************)
C1_OnePlatePerSourceKey ==
  \A a, b \in plates : a.sourceKey = b.sourceKey => a = b

\* two executions of different deliveries of one order both tried to create
\* the same sourceKey: one created it, the other's create was turned away
C1_Witness ==
  \E p, q \in Execs :
    /\ p # q /\ Won(p) /\ Won(q) /\ Wid(p) # Wid(q)
    /\ orderNumber(p) = orderNumber(q)
    /\ \E pl \in plates : pl.slug \in Range(created[p]) /\ pl.sourceKey \in swallowed[q]

(***************************************************************************)
(* C2: among the executions of one delivery at most one has its insert     *)
(* accepted; only that one writes an order, a plate, the finalization or a *)
(* notification; every other one that answered 200 on the rejected insert  *)
(* wrote nothing and has a winner beside it.                               *)
(***************************************************************************)
C2_OneWinnerPerDelivery ==
  /\ \A p, q \in Execs :
       (PastGates(p) /\ PastGates(q) /\ Wid(p) = Wid(q) /\ Won(p) /\ Won(q)) => p = q
  /\ \A p \in Execs : writes[p] # {} => Won(p)
  /\ \A p \in Execs : created[p] # <<>> => Won(p)
  /\ \A o \in outbox : Won(o.by)
  /\ \A p \in Execs :
       DupRejected(p) =>
         /\ writes[p] = {} /\ created[p] = <<>>
         /\ \E q \in Execs : q # p /\ Won(q) /\ Wid(q) = Wid(p)

\* the winner is in the middle of the plate loop while the other execution
\* of the same delivery has already been turned away
C2_Witness ==
  \E p, q \in Execs :
    /\ p # q /\ Won(p) /\ pc[p] = "create_plate" /\ created[p] # <<>>
    /\ DupRejected(q) /\ Wid(q) = Wid(p)

(***************************************************************************)
(* C3: when every request received so far is the same authentic request,   *)
(* there is one DeliveryRecord at most (exactly one once an insert was     *)
(* answered), every plate was created by one execution while the others    *)
(* wrote nothing, and the sourceKeys are those of one submission: a subset *)
(* of the keys the payload yields, and all of them once the record is      *)
(* processed and no create of the winner was turned away.                  *)
(***************************************************************************)
\* the sourceKeys the groups gs yield for order number on
KeysOfGroups(on, gs) ==
  UNION {{sourceKey(on, gs[g].lineItemId, i) : i \in 0..(gs[g].units - 1)} :
           g \in 1..Len(gs)}

ExpectedKeys(raw) == KeysOfGroups(OrderNumberOf(raw), extractGroups(raw).groups)

\* every request received so far is the request of execution 1
SameRequest == PastGates(1) /\ \A p \in Execs : Started(p) => req[p] = req[1]

C3_SubmitManyAsOnce ==
  SameRequest =>
    /\ events \subseteq RecordsOf(Wid(1))
    /\ Cardinality(events) <= 1
    /\ (\E p \in Execs : Won(p) \/ DupRejected(p)) => Cardinality(events) = 1
    /\ \E w \in Execs :
         /\ \A pl \in plates : pl.slug \in Range(created[w])
         /\ \A p \in Execs \ {w} : created[p] = <<>> /\ writes[p] = {}
         /\ plates # {} =>
              /\ {pl.sourceKey : pl \in plates} \subseteq ExpectedKeys(req[1].rawBody)
              /\ ((\E e \in events : e.status = "processed") /\ swallowed[w] = {})
                   => {pl.sourceKey : pl \in plates} = ExpectedKeys(req[1].rawBody)

\* the same request was received twice, both executions answered, and the
\* two plates of the payload exist
C3_Witness ==
  /\ SameRequest
  /\ \A p \in Execs : pc[p] = "done"
  /\ \E p \in Execs : DupRejected(p)
  /\ \E e \in events : e.status = "processed"
  /\ Cardinality(plates) = 2

(***************************************************************************)
(* C4: an execution whose insert is rejected for uniqueness answers 200    *)
(* in that step, the step changes no collection, the execution has written *)
(* nothing, and a finished execution never acts again.                     *)
(***************************************************************************)
C4_Step ==
  \A p \in Execs :
    /\ (pc[p] = "create_event" /\ pc'[p] # "create_event" /\ failure'[p] = "unique") =>
         /\ pc'[p] = "done" /\ resp'[p] = 200
         /\ UNCHANGED storage
         /\ writes'[p] = {} /\ created'[p] = <<>> /\ eventId'[p] = None
    /\ pc[p] = "done" =>
         /\ pc'[p] = "done" /\ resp'[p] = resp[p]
         /\ writes'[p] = writes[p] /\ created'[p] = created[p]

C4_DuplicateIsSilent == [][C4_Step]_vars

\* a processed delivery with its order and plates was sent again and the
\* redelivery got its 200 from the rejected insert
C4_Witness ==
  \E q \in Execs :
    /\ DupRejected(q)
    /\ \E e \in RecordsOf(Wid(q)) : e.status = "processed"
    /\ orders # {} /\ plates # {} /\ outbox # {}
    /\ \A o \in outbox : o.by # q

(***************************************************************************)
(* C5: the status of the record of a delivery is received when the record  *)
(* appears, changes from received to processed or failed only, never       *)
(* changes once it is processed or failed, and the record stays.           *)
(***************************************************************************)
C5_Step ==
  /\ \A e \in events : RecordsOf(e.webhookId)' # {}
  /\ \A f \in events' :
       IF RecordsOf(f.webhookId) = {}
         THEN f.status = "received"
         ELSE \A e \in RecordsOf(f.webhookId) :
                \/ f.status = e.status
                \/ e.status = "received" /\ f.status \in {"processed", "failed"}

C5_StatusMovesForward == [][C5_Step]_vars

\* a record went from received to failed and stayed failed while a
\* redelivery of it was answered from the rejected insert
C5_Witness ==
  \E e \in events :
    /\ e.status = "failed" /\ e.error # ""
    /\ \E q \in Execs : DupRejected(q) /\ Wid(q) = e.webhookId

(***************************************************************************)
(* Payload cases of the properties C6 to C8.                               *)
(***************************************************************************)
\* line i of the body carries a review URL and its pack size is unresolved
UnresolvedAt(body, i) ==
  /\ IsSome(findReviewUrlInProperties(body.line_items[i].properties))
  /\ Val(findReviewUrlInProperties(body.line_items[i].properties)).kind # "empty"
  /\ ~IsSome(getPackSize(body.line_items[i]))

\* line i of the body yields a group
ValidAt(body, i) == ItemStep(body.line_items[i]).op = "push"

HasUnresolvedLine(body) ==
  body.json /\ \E i \in 1..Len(body.line_items) : UnresolvedAt(body, i)

\* the body has order number and contact
Identified(body) == body.json /\ OrderNumberOf(body) # "" /\ CustomerEmailOf(body) # ""

\* the record p inserted; only read where Won(p)
EventOf(p) == CHOOSE e \in events : e.id = Val(eventId[p])

\* the record p inserted is failed with an error text
RecordFailed(p) ==
  \E e \in events : e.id = Val(eventId[p]) /\ e.status = "failed" /\ e.error # ""

(***************************************************************************)
(* C6: an execution that registered a delivery whose payload holds a       *)
(* relevant line with no resolvable pack size answers 200 and leaves the   *)
(* record failed with an error text whenever it has answered.              *)
(***************************************************************************)
C6_UnresolvedPackFails ==
  \A p \in Execs :
    (pc[p] = "done" /\ Won(p) /\ Identified(req[p].rawBody)
       /\ HasUnresolvedLine(req[p].rawBody))
      => (resp[p] = 200 /\ RecordFailed(p))

(***************************************************************************)
(* C7: an execution whose payload holds a relevant line with no resolvable *)
(* pack size never creates a plate and never creates, updates or finalizes *)
(* an order, also when valid lines come before that line.                  *)
(***************************************************************************)
C7_UnresolvedPackWritesNothing ==
  \A p \in Execs :
    (Started(p) /\ HasUnresolvedLine(req[p].rawBody)) =>
      /\ writes[p] \cap {"order", "plate", "finalize", "notify"} = {}
      /\ created[p] = <<>>
      /\ \A o \in orders : o.id # p
      /\ \A o \in outbox : o.by # p

\* an execution registered a payload whose first line is valid and whose
\* second line has no resolvable pack size, and has answered
C7_Witness ==
  \E p \in Execs :
    /\ pc[p] = "done" /\ Won(p) /\ Identified(req[p].rawBody)
    /\ Len(req[p].rawBody.line_items) = 2
    /\ ValidAt(req[p].rawBody, 1)
    /\ UnresolvedAt(req[p].rawBody, 2)

(***************************************************************************)
(* C8: an execution that registered a delivery whose payload is not JSON,  *)
(* or lacks the order number or the contact, or yields no group, or holds  *)
(* a group with an invalid destination URL, and that did not stop on an    *)
(* exception, has answered 200 and left the record failed with an error    *)
(* text.                                                                   *)
(***************************************************************************)
\* the payload of p is one of the four cases
BusinessCase(p) ==
  \/ ~req[p].rawBody.json
  \/ ~Identified(req[p].rawBody)
  \/ ~extractGroups(req[p].rawBody).threw /\ groups[p] = <<>>
  \/ /\ ~extractGroups(req[p].rawBody).threw
     /\ \E g \in 1..Len(groups[p]) :
          ~IsSome(normalizeGoogleReviewLinkStrict(groups[p][g].reviewUrl))

C8_BusinessErrorFails ==
  \A p \in Execs :
    (pc[p] = "done" /\ Won(p) /\ BusinessCase(p) /\ resp[p] # 500)
      => (resp[p] = 200 /\ RecordFailed(p))

(***************************************************************************)
(* C9: when the record of delivery d is at received and the execution that *)
(* inserted it has stopped on an infrastructure error, a redelivery of d   *)
(* that reaches the insert is not answered 200 as already handled.         *)
(***************************************************************************)
\* the record of the delivery of p is stuck: received, its owner answered 500
StuckRecord(p) ==
  \E e \in RecordsOf(Wid(p)) :
    e.status = "received" /\ pc[e.id] = "done" /\ resp[e.id] = 500
      /\ failure[e.id] = "infra"

C9_Step ==
  \A p \in Execs :
    (pc[p] = "create_event" /\ StuckRecord(p)) => ~(pc'[p] = "done" /\ resp'[p] = 200)

C9_StuckRecordIsReprocessed == [][C9_Step]_vars

(***************************************************************************)
(* C10: when an execution has answered 200 for delivery d and no execution *)
(* of d is running, the record of d is processed or failed.                *)
(***************************************************************************)
C10_OkMeansTerminal ==
  \A p \in Execs :
    (/\ pc[p] = "done" /\ resp[p] = 200
     /\ \A q \in Execs : (PastGates(q) /\ Wid(q) = Wid(p)) => ~Running(q))
      => \E e \in RecordsOf(Wid(p)) : e.status \in {"processed", "failed"}

(***************************************************************************)
(* C11: a step in which the insert (other than by a uniqueness violation), *)
(* the order lookup, the order upsert, a plate read, a plate creation or   *)
(* the order finalization fails for an infrastructure reason ends the      *)
(* execution with status 500 and changes no collection; an execution that  *)
(* answered 500 never wrote a status, and its record is still received.    *)
(***************************************************************************)
\* the steps whose storage call the property is about
InfraSteps ==
  {"create_event", "find_order", "upsert_order", "find_plates", "create_plate",
   "final_find", "final_update"}

C11_Step ==
  \A p \in Execs :
    (pc[p] \in InfraSteps /\ failure'[p] = "infra") =>
      /\ pc'[p] = "done" /\ resp'[p] = 500
      /\ UNCHANGED storage

C11_Stopped ==
  \A p \in Execs :
    (pc[p] = "done" /\ resp[p] = 500) =>
      /\ "mark" \notin writes[p]
      /\ Won(p) => \E e \in events : e.id = Val(eventId[p]) /\ e.status = "received"

C11_InfraErrorIsTransient == [][C11_Step]_vars /\ []C11_Stopped

\* an execution created a plate, then a storage call failed for an
\* infrastructure reason: status 500, its record is received
C11_Witness ==
  \E p \in Execs :
    /\ pc[p] = "done" /\ resp[p] = 500 /\ failure[p] = "infra"
    /\ Won(p) /\ created[p] # <<>>
    /\ \E e \in events : e.id = Val(eventId[p]) /\ e.status = "received"

(***************************************************************************)
(* C12: a step in which the write of the record's status fails for an      *)
(* infrastructure reason does not answer 200 and does not go on to the     *)
(* notification: the execution reports a status other than 200.            *)
(***************************************************************************)
C12_Step ==
  \A p \in Execs :
    (pc[p] = "mark" /\ failure'[p] = "infra") =>
      (pc'[p] = "done" /\ resp'[p] # 200)

C12_FailedStatusWriteIsReported == [][C12_Step]_vars

(***************************************************************************)
(* Vocabulary of the gate properties C13 to C15.                           *)
(***************************************************************************)
\* p answered from a gate: it finished without reaching the insert
GateStopped(p) == pc[p] = "done" /\ ~Won(p) /\ failure[p] = ""
\* topic and delivery id of the request of p are accepted
TopicAndIdPass(p) == req[p].topic = "orders/paid" /\ IsSome(req[p].webhookId)
\* the signature header of p is the source's keyed hash of the raw body of p
SourceSigned(p) == IsSome(req[p].hmac) /\ Val(req[p].hmac) = Hmac(Secret, req[p].rawBody)
\* p wrote nothing and registered nothing
WroteNothing(p) ==
  /\ writes[p] = {} /\ created[p] = <<>> /\ ~Won(p)
  /\ \A e \in events : e.id # p
  /\ \A o \in orders : o.id # p

(***************************************************************************)
(* C13 as stated: a request with another topic, or without delivery id,    *)
(* or, with verification enabled, with a missing or wrong signature, is    *)
(* answered 401 and its execution writes nothing.                          *)
(***************************************************************************)
C13_Stated ==
  \A p \in Execs :
    (Started(p) /\ (~TopicAndIdPass(p) \/ (env.verify /\ ~SourceSigned(p)))) =>
      (GateStopped(p) /\ resp[p] = 401 /\ WroteNothing(p))

(***************************************************************************)
(* C13 amended: a request with another topic, or without delivery id, or,  *)
(* with verification enabled and the secret configured, with a missing or  *)
(* wrong signature, is answered 401; every execution answered from a gate  *)
(* writes nothing.                                                         *)
(***************************************************************************)
C13_GateRejects ==
  \A p \in Execs :
    /\ (Started(p) /\ (~TopicAndIdPass(p)
                        \/ (env.verify /\ IsSome(env.secret) /\ ~SourceSigned(p)))) =>
         (GateStopped(p) /\ resp[p] = 401)
    /\ GateStopped(p) => (resp[p] \in {401, 500} /\ WroteNothing(p))

\* with verification enabled and the secret configured, one request had
\* another topic and one had a signature made with another key: both 401
C13_Witness ==
  /\ env.verify /\ IsSome(env.secret)
  /\ \E p, q \in Execs :
       /\ GateStopped(p) /\ resp[p] = 401 /\ req[p].topic # "orders/paid"
       /\ GateStopped(q) /\ resp[q] = 401 /\ TopicAndIdPass(q)
       /\ IsSome(req[q].hmac) /\ ~SourceSigned(q)
  /\ events = {} /\ orders = {} /\ plates = {}

(***************************************************************************)
(* C14: with verification enabled and the secret absent, every request     *)
(* that passes the topic and delivery-id gates is answered 500.            *)
(***************************************************************************)
C14_MissingSecretIs500 ==
  \A p \in Execs :
    (Started(p) /\ env.verify /\ ~IsSome(env.secret) /\ TopicAndIdPass(p)) =>
      (GateStopped(p) /\ resp[p] = 500)

(***************************************************************************)
(* C15: with verification enabled and the secret present, a request that   *)
(* passes the topic and delivery-id gates passes the signature gate        *)
(* exactly when its signature header is the keyed hash of its raw body;    *)
(* otherwise it is answered 401.                                           *)
(***************************************************************************)
C15_SignatureGate ==
  \A p \in Execs :
    (Started(p) /\ env.verify /\ IsSome(env.secret) /\ TopicAndIdPass(p)) =>
      /\ ~GateStopped(p) <=>
           (IsSome(req[p].hmac)
              /\ Val(req[p].hmac) = Hmac(Val(env.secret), req[p].rawBody))
      /\ GateStopped(p) => resp[p] = 401

\* a correctly signed request passed and was registered; the same signature
\* presented with another body was answered 401
C15_Witness ==
  /\ env.verify /\ IsSome(env.secret)
  /\ \E p, q \in Execs :
       /\ Won(p) /\ SourceSigned(p)
       /\ GateStopped(q) /\ resp[q] = 401 /\ TopicAndIdPass(q)
       /\ req[q].hmac = req[p].hmac /\ req[q].rawBody # req[p].rawBody

(***************************************************************************)
(* C16: the order upsert of an execution never ends on a uniqueness        *)
(* violation: unless the storage layer itself fails, the execution goes on *)
(* to the plates, also when another delivery of the same new order number  *)
(* runs its upsert at the same time.                                       *)
(***************************************************************************)
C16_Step ==
  \A p \in Execs :
    (pc[p] = "upsert_order" /\ pc'[p] # "upsert_order" /\ failure'[p] # "infra") =>
      pc'[p] = "find_plates"

C16_UpsertToleratesRace == [][C16_Step]_vars

(***************************************************************************)
(* C17: when no execution is running and every execution that reached the *)
(* plates of an order has answered 200 after finalizing and marking its    *)
(* record, the child list of the order is the set of the plates that       *)
(* reference the order.                                                    *)
(***************************************************************************)
\* the executions that read or created plates of order id
WorkedOn(id) == {p \in Execs : order[p] = Some(id)}

C17_ChildListIsComplete ==
  (\A p \in Execs : ~Running(p)) =>
    \A o \in orders :
      (/\ WorkedOn(o.id) # {}
       /\ \A p \in WorkedOn(o.id) : resp[p] = 200 /\ {"finalize", "mark"} \subseteq writes[p])
        => o.plates = {pl.slug : pl \in PlatesOfOrder(o.id)}

(***************************************************************************)
(* C18: when the record of a delivery is processed, every line of its      *)
(* payload that carries a destination has a line id and a pack size, and   *)
(* a plate exists for each of its units.                                   *)
(***************************************************************************)
\* line i of the body carries a destination
RelevantAt(body, i) ==
  /\ IsSome(findReviewUrlInProperties(body.line_items[i].properties))
  /\ Val(findReviewUrlInProperties(body.line_items[i].properties)).kind # "empty"

\* the plates of line item it of order number on are all there
LineIsServed(on, it) ==
  /\ ~LacksLineId(it)
  /\ IsSome(getPackSize(it))
  /\ \A u \in 0..(QuantityOf(it) * Val(getPackSize(it)) - 1) :
       PlateKeyTaken(sourceKey(on, LineItemIdOf(it), u))

C18_ProcessedMeansAllPlates ==
  \A p \in Execs :
    (Won(p) /\ \E e \in events : e.id = Val(eventId[p]) /\ e.status = "processed") =>
      \A i \in 1..Len(req[p].rawBody.line_items) :
        RelevantAt(req[p].rawBody, i) =>
          LineIsServed(orderNumber(p), req[p].rawBody.line_items[i])

(***************************************************************************)
(* C19: an execution p failed its event on a later group after creating    *)
(* plates for earlier groups, and a delivery q of the same order whose     *)
(* payload has the same lines with valid destinations is processed with    *)
(* none of its creates turned away.  Then the plates of the order are      *)
(* exactly those of the payload of q, the plates p created are still       *)
(* there, and q created the missing ones and no other.  No step removes or *)
(* changes a plate.                                                        *)
(***************************************************************************)
\* the sourceKeys of the relevant lines of the body, whatever their URLs
PayloadKeys(body) ==
  UNION {{sourceKey(OrderNumberOf(body), LineItemIdOf(body.line_items[i]), u) :
            u \in 0..(QuantityOf(body.line_items[i])
                        * Val(getPackSize(body.line_items[i])) - 1)} :
           i \in {j \in 1..Len(body.line_items) :
                    /\ RelevantAt(body, j)
                    /\ ~LacksLineId(body.line_items[j])
                    /\ IsSome(getPackSize(body.line_items[j]))}}

\* the record p inserted has the given status
RecordIs(p, status) ==
  Won(p) /\ \E e \in events : e.id = Val(eventId[p]) /\ e.status = status

\* the sourceKeys of the plates p created
CreatedKeys(p) == {pl.sourceKey : pl \in {x \in plates : x.slug \in Range(created[p])}}

\* p failed after creating plates; q is processed with the corrected payload
Repaired(p, q) ==
  /\ p # q /\ Wid(p) # Wid(q)
  /\ RecordIs(p, "failed") /\ created[p] # <<>>
  /\ RecordIs(q, "processed") /\ swallowed[q] = {}
  /\ PayloadKeys(req[q].rawBody) = PayloadKeys(req[p].rawBody)

C19_State ==
  \A p, q \in Execs :
    (Won(p) /\ Won(q) /\ Repaired(p, q)) =>
      /\ {pl.sourceKey : pl \in plates} = PayloadKeys(req[q].rawBody)
      /\ Cardinality(plates) = Cardinality(PayloadKeys(req[q].rawBody))
      /\ Cardinality(CreatedKeys(p)) = Len(created[p])
      /\ CreatedKeys(q) = PayloadKeys(req[q].rawBody) \ CreatedKeys(p)
      /\ Cardinality(CreatedKeys(q)) = Len(created[q])

GroupIsValid(p, g) ==
  /\ TruthyStr(groups[p][g].lineItemId)
  /\ IsSome(normalizeGoogleReviewLinkStrict(groups[p][g].reviewUrl))

\* the loop of p has passed over all the groups of p
FullPass(p) ==
  /\ groups[p] # <<>>
  /\ gi[p] > Len(groups[p])
  /\ \A g \in 1..Len(groups[p]) : GroupIsValid(p, g)

\* p takes its finalization step on order id
Finalizes(p, id) ==
  /\ pc[p] = "final_update" /\ pc'[p] = "mark"
  /\ order[p] = Some(id)
  /\ FullPass(p)

C20_Step ==
  \A o2 \in orders' :
    IF \E o \in orders : o.id = o2.id
      THEN \A o \in orders :
             (o.id = o2.id /\ (o2.activated # o.activated \/ o2.plates # o.plates)) =>
               \E p \in Execs : Finalizes(p, o.id)
      ELSE ~o2.activated /\ o2.plates = {}

C20_State ==
  /\ \A o \in orders :
       (o.activated \/ o.plates # {}) =>
         \E p \in Execs : order[p] = Some(o.id) /\ "finalize" \in writes[p] /\ FullPass(p)
  /\ \A p \in Execs :
       (\E g \in 1..Len(groups[p]) : ~GroupIsValid(p, g)) => "finalize" \notin writes[p]

C20_ActivatedOnlyAfterFullPass == []C20_State /\ [][C20_Step]_vars

\* an execution created the plate of its first group, failed the event on
\* the invalid destination of the second and answered: the order it upserted
\* is not activated and its child list is empty
C20_Witness ==
  \E p \in Execs :
    /\ pc[p] = "done" /\ RecordIs(p, "failed") /\ created[p] # <<>>
    /\ \E g \in 1..Len(groups[p]) : ~GroupIsValid(p, g)
    /\ \E o \in orders : order[p] = Some(o.id) /\ ~o.activated /\ o.plates = {}
    /\ PlatesOfOrder(Val(order[p])) # {}

(***************************************************************************)
(* C21: the step in which the notification send fails changes no record,   *)
(* order or plate and answers 200; an execution that wrote processed and   *)
(* whose send failed has answered 200 with its record at processed.        *)
(***************************************************************************)
\* p takes the notification step and no mail is sent
SendFails(p) == pc[p] = "send_email" /\ pc'[p] # "send_email" /\ outbox' = outbox

C21_Step ==
  \A p \in Execs :
    SendFails(p) =>
      /\ events' = events /\ orders' = orders /\ plates' = plates
      /\ pc'[p] = "done" /\ resp'[p] = 200

\* p was to notify and is done without having sent
SendFailed(p) ==
  /\ pc[p] = "done" /\ mark[p].next = "notify" /\ IsSome(env.notifyTo)
  /\ created[p] # <<>> /\ "notify" \notin writes[p]

C21_State ==
  \A p \in Execs :
    (SendFailed(p) /\ "mark" \in writes[p]) => (resp[p] = 200 /\ RecordIs(p, "processed"))

C21_SendFailureIsIgnored == []C21_State /\ [][C21_Step]_vars

\* the send of a processed delivery failed: no mail, status 200, record
\* processed, order activated with its plates
C21_Witness ==
  \E p \in Execs :
    /\ SendFailed(p) /\ "mark" \in writes[p]
    /\ resp[p] = 200 /\ RecordIs(p, "processed")
    /\ \A o \in outbox : o.by # p
    /\ \E o \in orders : order[p] = Some(o.id) /\ o.activated /\ o.plates # {}

(***************************************************************************)
(* C22: every group the extractor emits for a line has units = quantity x  *)
(* packSize, where packSize is the resolved pack size of the line, one of  *)
(* 1, 2 and 5, and quantity >= 1, so units >= 1; a line whose pack size is *)
(* unresolved yields no group.                                             *)
(***************************************************************************)
C22_UnitsOfGroups ==
  lineResult.done =>
    /\ \A g \in 1..Len(lineResult.extracted.groups) :
         /\ IsSome(lineResult.packSize)
         /\ Val(lineResult.packSize) \in {1, 2, 5}
         /\ \E q \in 1..3 :
              /\ q = (IF IsSome(lineItem.quantity) THEN
                        (IF Val(lineItem.quantity) > 0 THEN Val(lineItem.quantity) ELSE 1)
                      ELSE IF IsSome(lineItem.current_quantity)
                             /\ Val(lineItem.current_quantity) > 0
                        THEN Val(lineItem.current_quantity)
                      ELSE 1)
              /\ lineResult.extracted.groups[g].units = q * Val(lineResult.packSize)
         /\ lineResult.extracted.groups[g].units >= 1
    /\ ~IsSome(lineResult.packSize) => lineResult.extracted.groups = <<>>

\* a line with quantity 0 and a pack of five was extracted: one group of
\* five units
C22_Witness ==
  /\ lineResult.done
  /\ lineItem.quantity = Some(0)
  /\ lineResult.packSize = Some(5)
  /\ Len(lineResult.extracted.groups) = 1
  /\ lineResult.extracted.groups[1].units = 5

(***************************************************************************)
(* C23: the pack resolver returns 1, 2 or 5 exactly when the count of the  *)
(* leftmost match of the pattern in "variant_title name" is that integer,  *)
(* and returns null when nothing matches or the count is another integer.  *)
(***************************************************************************)
\* the count of the leftmost "<digits> plaque(s)" of a label, -1 for none,
\* read off the label by hand
CountOf(label) ==
  CASE label = LabelOne -> 1
    [] label = LabelTwo -> 2
    [] label = LabelTen -> 10
    [] label = LabelPadded -> 5
    [] label = LabelFraction -> 5
    [] label = LabelGlued -> 5
    [] label = LabelFirstOfTwo -> 12
    [] label = LabelUpper -> 5
    [] label = LabelZero -> 0
    [] OTHER -> -1

\* the count of the leftmost match in variant_title, else in name
MatchedCount(it) ==
  IF CountOf(it.variant_title) # -1 THEN CountOf(it.variant_title) ELSE CountOf(it.name)

C23_PackResolver ==
  lineResult.done =>
    lineResult.packSize =
      (IF MatchedCount(lineItem) \in {1, 2, 5} THEN Some(MatchedCount(lineItem)) ELSE None)

\* the label "10 Plaques" was resolved: null
C23_Witness ==
  /\ lineResult.done
  /\ lineItem.variant_title = LabelTen
  /\ lineItem.name = LabelTwo
  /\ lineResult.packSize = None

(***************************************************************************)
(* C24: a record that leaves webhook-events had status processed or failed *)
(* and a creation time older than the retention window, so a received      *)
(* record is never removed; the step that removes it creates, changes and  *)
(* deletes no order and no plate.                                          *)
(***************************************************************************)
\* the row e is in webhook-events before the step and not after it
Removed(e) == e \in events /\ ~\E f \in events' : f.id = e.id

C24_Step ==
  \A e \in events :
    Removed(e) =>
      /\ e.status \in {"processed", "failed"}
      /\ e.createdAt < now - KeepDays
      /\ e.status # "received"
      /\ orders' = orders /\ plates' = plates

C24_PurgeRemovesOldFinalRecords == [][C24_Step]_vars

\* the record of a processed delivery was purged while a record as old as
\* it, left at received by an execution that threw, is still there
C24_Witness ==
  \E p, q \in Execs :
    /\ p # q /\ Won(p) /\ Won(q) /\ pc[p] = "done" /\ pc[q] = "done"
    /\ mark[p].data.status = "processed" /\ "mark" \in writes[p]
    /\ ~\E e \in events : e.id = p
    /\ \E e \in events : e.id = q /\ e.status = "received" /\ e.createdAt < now - KeepDays
    /\ orders # {} /\ plates # {}

(***************************************************************************)
(* C25: when the record of a delivery that was processed with none of its  *)
(* creates turned away has been purged and the same request is registered  *)
(* again, the second execution creates no plate, the plates are those of   *)
(* the payload, one per sourceKey, there is exactly one order of that      *)
(* number once the first execution has answered, and the new record is     *)
(* processed once the second execution has written its final status.       *)
(***************************************************************************)
\* q registered the request of p after the record of p was purged: both
\* inserts were accepted and only the row of q is there
RegisteredAgain(p, q) ==
  /\ p # q /\ Won(p) /\ Won(q) /\ req[q] = req[p]
  /\ ~\E e \in events : e.id = p
  /\ \E e \in events : e.id = q

\* the record of p was finalized as processed and no create was turned away
ProcessedInFull(p) ==
  /\ pc[p] = "done" /\ "mark" \in writes[p]
  /\ mark[p].data.status = "processed"
  /\ swallowed[p] = {}

C26_Step ==
  \A p \in Execs :
    \A k \in swallowed'[p] \ swallowed[p] :
      \E pl \in plates : pl.sourceKey = k

C26_SwallowedKeyExists == [][C26_Step]_vars

(***************************************************************************)
(* C27: an execution stands at the create of a plate only with a group     *)
(* whose destination passed the validation; every plate that appears has   *)
(* the sourceKey of the unit its execution stands at and the normalized    *)
(* destination of that group; an execution has created no plate of a       *)
(* group of its own whose destination is malformed.                        *)
(***************************************************************************)
\* the destination of group g of p after validation, None when malformed
Destination(p, g) == normalizeGoogleReviewLinkStrict(groups[p][g].reviewUrl)

C27_Step ==
  \A pl \in plates' \ plates :
    \E p \in Execs :
      /\ pc[p] = "create_plate"
      /\ pl.sourceKey = CurrentKey(p)
      /\ IsSome(Destination(p, gi[p]))
      /\ pl.googleReviewUrl = Val(Destination(p, gi[p]))

C27_State ==
  \A p \in Execs :
    /\ pc[p] = "create_plate" => IsSome(Destination(p, gi[p]))
    /\ \A g \in 1..Len(groups[p]) :
         ~IsSome(Destination(p, g)) =>
           CreatedKeys(p) \cap KeysOfGroups(orderNumber(p), <<groups[p][g]>>) = {}

C27_DestinationIsValidated == []C27_State /\ [][C27_Step]_vars

\* one execution created the plate of its first group and failed on the
\* malformed destination of the second; another one created a plate whose
\* destination is the normalized form of what its payload carried
C27_Witness ==
  \E p, q \in Execs :
    /\ pc[p] = "done" /\ created[p] # <<>>
    /\ \E g \in 1..Len(groups[p]) : ~IsSome(Destination(p, g))
    /\ RecordIs(p, "failed")
    /\ \E pl \in plates :
         /\ pl.slug \in Range(created[q])
         /\ \E g \in 1..Len(groups[q]) :
              /\ pl.sourceKey \in KeysOfGroups(orderNumber(q), <<groups[q][g]>>)
              /\ pl.googleReviewUrl # groups[q][g].reviewUrl

(***************************************************************************)
(* C28: an execution has written an order, a plate or the finalization     *)
(* only after its insert was accepted; its record is processed only after  *)
(* it finalized the order; a notification of it was delivered only after   *)
(* its record was set to processed.                                        *)
(***************************************************************************)
C28_StepsAreOrdered ==
  \A p \in Execs :
    /\ writes[p] \cap {"order", "plate", "finalize"} # {} => Won(p)
    /\ RecordIs(p, "processed") =>
         /\ "finalize" \in writes[p]
         /\ \E o \in orders : o.id = Val(order[p]) /\ o.activated
    /\ (\E o \in outbox : o.by = p) => RecordIs(p, "processed")

(***************************************************************************)
(* C29: the quantity behind the units of a group is the quantity field of  *)
(* the line when it is present and positive, otherwise the alternate field *)
(* current_quantity when that is present and positive, and 1 only when     *)
(* both are absent or non-positive.                                        *)
(***************************************************************************)
\* the option v is present and positive
PresentAndPositive(v) == IsSome(v) /\ Val(v) > 0

\* the quantity the statement gives the line
StatedQuantity(item) ==
  IF PresentAndPositive(item.quantity) THEN Val(item.quantity)
  ELSE IF PresentAndPositive(item.current_quantity) THEN Val(item.current_quantity)
  ELSE 1

C29_QuantityFallsBack ==
  lineResult.done =>
    \A g \in 1..Len(lineResult.extracted.groups) :
      lineResult.extracted.groups[g].units
        = StatedQuantity(lineItem) * Val(lineResult.packSize)

(***************************************************************************)
(* C30: the line component of the sourceKey of every plate an execution    *)
(* created is the non-empty id its payload supplies for a relevant line,   *)
(* the field id or, when id is absent, admin_graphql_api_id; an execution  *)
(* whose payload has a relevant line with no such id either holds no group *)
(* with an empty line id or does not finalize and fails its event.         *)
(***************************************************************************)
\* the id the payload supplies for the line, "" when it supplies none
SuppliedId(it) ==
  IF IsSome(it.id) THEN Val(it.id)
  ELSE IF IsSome(it.admin_graphql_api_id) THEN Val(it.admin_graphql_api_id)
  ELSE ""

\* the sourceKeys that carry the supplied id of line j of the body
KeysOfLine(body, j) ==
  IF SuppliedId(body.line_items[j]) = "" \/ ~IsSome(getPackSize(body.line_items[j]))
    THEN {}
    ELSE {sourceKey(OrderNumberOf(body), SuppliedId(body.line_items[j]), u) :
            u \in 0..(QuantityOf(body.line_items[j])
                        * Val(getPackSize(body.line_items[j])) - 1)}

C30_LineComponentIsSuppliedId ==
  \A p \in Execs :
    /\ \A k \in CreatedKeys(p) :
         \E j \in 1..Len(req[p].rawBody.line_items) :
           RelevantAt(req[p].rawBody, j) /\ k \in KeysOfLine(req[p].rawBody, j)
    /\ (Won(p) /\ \E j \in 1..Len(req[p].rawBody.line_items) :
                    /\ RelevantAt(req[p].rawBody, j)
                    /\ SuppliedId(req[p].rawBody.line_items[j]) = "")
         => \/ \A g \in 1..Len(groups[p]) : groups[p][g].lineItemId # ""
            \/ /\ "finalize" \notin writes[p]
               /\ ~RecordIs(p, "processed")
               /\ (pc[p] = "done" /\ resp[p] = 200) => mark[p].data.status = "failed"

\* a plate was created under the admin_graphql_api_id of a line without id,
\* and an execution whose line has the empty id failed its event
C30_Witness ==
  \E p, q \in Execs :
    /\ \E k \in CreatedKeys(p) :
         \E j \in 1..Len(req[p].rawBody.line_items) :
           /\ ~IsSome(req[p].rawBody.line_items[j].id)
           /\ k \in KeysOfLine(req[p].rawBody, j)
    /\ \E g \in 1..Len(groups[q]) : groups[q][g].lineItemId = ""
    /\ RecordIs(q, "failed") /\ created[q] = <<>>

(***************************************************************************)
(* C31: with signature verification switched off, a request with the topic *)
(* orders/paid and a webhook id leaves the gates for the insert of its     *)
(* record without an answer, whatever its signature header is and whether  *)
(* or not the secret is configured.                                        *)
(***************************************************************************)
C31_Step ==
  \A p \in Execs :
    (/\ pc[p] = "idle" /\ pc'[p] # "idle"
     /\ ~env.verify
     /\ req'[p].topic = "orders/paid" /\ IsSome(req'[p].webhookId)) =>
      pc'[p] = "create_event" /\ resp'[p] = 0

C31_State ==
  \A p \in Execs :
    (Started(p) /\ ~env.verify /\ req[p].topic = "orders/paid" /\ IsSome(req[p].webhookId))
      => PastGates(p) /\ resp[p] # 401

C31_DisabledCheckIsSkipped == []C31_State /\ [][C31_Step]_vars

\* verification is off and the secret is configured: the record of a request
\* signed with another key was inserted, and a request without a signature
\* header stands at its insert
C31_Witness ==
  /\ ~env.verify /\ IsSome(env.secret)
  /\ \E p, q \in Execs :
       /\ p # q
       /\ Won(p) /\ IsSome(req[p].hmac) /\ Val(req[p].hmac) = Hmac("guess", BodyTwo)
       /\ pc[q] = "create_event" /\ ~IsSome(req[q].hmac)

(***************************************************************************)
(* C32: no step of the pipeline changes or deletes a plate: every plate    *)
(* row is there after the step with the sourceKey, slug, destination,      *)
(* order and status it has before the step, and no other row takes its     *)
(* slug or its sourceKey.                                                  *)
(***************************************************************************)
C32_Step ==
  \A pl \in plates :
    /\ pl \in plates'
    /\ \A n \in plates' : (n.slug = pl.slug \/ n.sourceKey = pl.sourceKey) => n = pl

C32_PlatesAreNeverChanged == [][C32_Step]_vars

\* the plates one delivery created are there after a later delivery of the
\* same order updated the order, created a plate of its own, finalized and
\* was processed
C32_Witness ==
  \E p, q \in Execs :
    /\ p # q /\ Won(p) /\ Won(q) /\ Wid(p) # Wid(q)
    /\ RecordIs(p, "processed") /\ RecordIs(q, "processed")
    /\ orderNumber(p) = orderNumber(q)
    /\ created[p] # <<>> /\ created[q] # <<>>
    /\ {"order", "plate", "finalize"} \subseteq writes[q]
    /\ order[q] = Some(p)

(***************************************************************************)
(* C33: every notification delivered comes from an execution that created  *)
(* at least one plate itself, under a configured notification address, and *)
(* lists the plates that execution created; an execution that was answered *)
(* from the rejected insert, that failed its event, or that created no     *)
(* plate has delivered none.                                               *)
(***************************************************************************)
\* the notifications p delivered
SentBy(p) == {o \in outbox : o.by = p}

C33_NotifiesOnlyItsOwnPlates ==
  /\ \A o \in outbox :
       /\ IsSome(env.notifyTo) /\ o.to = Val(env.notifyTo)
       /\ created[o.by] # <<>> /\ o.slugs = created[o.by]
       /\ \A i \in 1..Len(o.slugs) : \E pl \in plates : pl.slug = o.slugs[i]
  /\ \A p \in Execs :
       (\/ DupRejected(p)
        \/ mark[p].data.status = "failed"
        \/ created[p] = <<>>
        \/ ~IsSome(env.notifyTo)) => SentBy(p) = {}

\* one delivery created the plates and delivered its notification; a later
\* delivery of the same order found them all, was processed and sent none
C33_Witness ==
  \E p, q \in Execs :
    /\ p # q /\ Won(p) /\ Won(q)
    /\ SentBy(p) # {}
    /\ RecordIs(q, "processed") /\ pc[q] = "done" /\ resp[q] = 200
    /\ created[q] = <<>> /\ order[q] = order[p]
    /\ SentBy(q) = {}

(***************************************************************************)
(* C34: for every order number the counts of newly created plates written  *)
(* on the processed records of that order add up to no more than the       *)
(* number of plates of the order; the created lists of two executions      *)
(* share no plate, a created list holds no plate twice, every plate is in  *)
(* the created list of one execution, and the count on a processed record  *)
(* is the length of the created list of its execution.                     *)
(***************************************************************************)
RECURSIVE SumOfCounts(_)
\* the sum of the field count over the rows of S
SumOfCounts(S) ==
  IF S = {} THEN 0
  ELSE LET e == CHOOSE x \in S : TRUE IN e.count + SumOfCounts(S \ {e})

\* the processed records that carry order number on
ProcessedOf(on) == {e \in events : e.status = "processed" /\ e.orderNumber = Some(on)}

\* the plates whose order has the number on
PlatesOfNumber(on) ==
  {pl \in plates : \E o \in orders : o.id = pl.order /\ o.orderNumber = on}

C34_EachPlateCountedOnce ==
  /\ \A o \in orders :
       SumOfCounts(ProcessedOf(o.orderNumber)) <= Cardinality(PlatesOfNumber(o.orderNumber))
  /\ \A p, q \in Execs : p # q => Range(created[p]) \cap Range(created[q]) = {}
  /\ \A p \in Execs : Cardinality(Range(created[p])) = Len(created[p])
  /\ \A pl \in plates : \E p \in Execs : pl.slug \in Range(created[p])
  /\ \A p \in Execs : RecordIs(p, "processed") =>
       \E e \in events : e.id = Val(eventId[p]) /\ e.count = Len(created[p])

\* two deliveries of one order ran side by side and were both processed: one
\* create of the one was turned away for a plate the other had created, and
\* the two counts add up to the plates of the order
C34_Witness ==
  \E p, q \in Execs :
    /\ p # q /\ Won(p) /\ Won(q)
    /\ RecordIs(p, "processed") /\ RecordIs(q, "processed")
    /\ orderNumber(p) = orderNumber(q)
    /\ created[p] # <<>>
    /\ \E pl \in plates : pl.slug \in Range(created[p]) /\ pl.sourceKey \in swallowed[q]
    /\ SumOfCounts(ProcessedOf(orderNumber(p))) = Cardinality(plates)

(***************************************************************************)
(* C35: no step takes activated of an order from true to false, and no     *)
(* step removes an order; the update branch of the upsert changes the      *)
(* customer email and the status of the order it found and nothing else,   *)
(* so activated and the list of plates of every order are as before.       *)
(***************************************************************************)
\* p leaves the upsert through its update branch
UpdatesOrder(p) ==
  /\ pc[p] = "upsert_order" /\ pc'[p] = "find_plates"
  /\ IsSome(found[p])

C35_Step ==
  /\ \A o \in orders :
       \E n \in orders' : n.id = o.id /\ (o.activated => n.activated)
  /\ \A p \in Execs :
       UpdatesOrder(p) =>
         \A o \in orders :
           \E n \in orders' :
             /\ n.id = o.id /\ n.orderNumber = o.orderNumber
             /\ n.activated = o.activated /\ n.plates = o.plates
             /\ o.id # Val(found[p]) => n = o

C35_ActivatedStaysTrue == [][C35_Step]_vars

\* an activated order with its plates listed was updated by a later delivery
\* that changed its customer email and then failed its event: the order is
\* still activated
C35_Witness ==
  \E p, q \in Execs :
    /\ p # q /\ Won(p) /\ Won(q)
    /\ RecordIs(p, "processed") /\ RecordIs(q, "failed")
    /\ "order" \in writes[q] /\ order[q] = order[p]
    /\ customerEmail(q) # customerEmail(p)
    /\ \E o \in orders :
         /\ o.id = Val(order[p]) /\ o.activated /\ o.plates # {}
         /\ o.customerEmail = customerEmail(q)

(***************************************************************************)
(* C36: every record whose status is processed carries a non-empty order   *)
(* number, and an order with that number exists and is activated.          *)
(***************************************************************************)
C36_ProcessedHasActivatedOrder ==
  \A e \in events :
    e.status = "processed" =>
      /\ IsSome(e.orderNumber) /\ Val(e.orderNumber) # ""
      /\ \E o \in orders : o.orderNumber = Val(e.orderNumber) /\ o.activated

\* two deliveries of one order are processed: the second found the order
\* the first had created and activated
C36_Witness ==
  \E p, q \in Execs :
    /\ p # q /\ Won(p) /\ Won(q)
    /\ RecordIs(p, "processed") /\ RecordIs(q, "processed")
    /\ IsSome(found[q]) /\ order[q] = Some(p)
    /\ \A e \in events : e.orderNumber = Some(orderNumber(p))
    /\ \E o \in orders : o.id = p /\ o.activated /\ o.orderNumber = orderNumber(p)

(***************************************************************************)
(* C37: two distinct triples of order number, line id and unit index that  *)
(* executions hold never yield the same sourceKey, and the create of a     *)
(* plate is turned away on its sourceKey only when the plate that holds    *)
(* the key belongs to the same order number.                               *)
(***************************************************************************)
\* the triples (order number, line id, unit index) of the groups of p
TriplesOf(p) ==
  UNION {{<<orderNumber(p), groups[p][g].lineItemId, i>> :
            i \in 0..(groups[p][g].units - 1)} : g \in 1..Len(groups[p])}

C37_SourceKeyIsInjective ==
  /\ \A p, q \in Execs :
       \A s \in TriplesOf(p), t \in TriplesOf(q) :
         s # t => sourceKey(s[1], s[2], s[3]) # sourceKey(t[1], t[2], t[3])
  /\ \A q \in Execs :
       \A k \in swallowed[q] :
         \A pl \in plates :
           pl.sourceKey = k =>
             \E o \in orders : o.id = pl.order /\ o.orderNumber = orderNumber(q)

====
